---- MODULE Spec2Model ----
(***************************************************************************)
(* Duty-Agent scheduling orchestrator (Assets_Duty/core.py).               *)
(*                                                                         *)
(* Date strings are sequences of one-character strings, compared the way   *)
(* Python compares str values (code point order) and parsed the way        *)
(* datetime.strptime(s, "%Y-%m-%d") parses them.  Calendar dates are       *)
(* triples <<year, month, day>>.                                           *)
(***************************************************************************)
EXTENDS Integers, Sequences, FiniteSets, TLC

VARIABLES
    schedule_pool,        \* state.json: schedule_pool
    debt_list,            \* state.json: debt_list
    credit_list,          \* state.json: credit_list
    active_ids,           \* roster: sorted active ids
    area_names,           \* area configuration: names in configuration order
    area_per_day_counts,  \* area configuration: name -> per-day quota
    llm_result,           \* parsed model output: schedule, new_debt_ids, new_credit_ids
    apply_mode,           \* run request: apply_mode
    start_date,           \* start date of the run
    normalized_ids,       \* output of normalize_multi_area_schedule_ids
    restored,             \* new pool entries handed to merge_schedule_pool
    new_debt_list,        \* new_debt_ids of the model, filtered to active ids
    new_credit_list,      \* new_credit_ids of the model, filtered to active ids
    result,               \* value returned by the operation that ran last
    runs,                 \* number of runs of main so far
    llm_call,             \* call_llm: locals of the call in progress
    instruction,          \* run request: instruction text, a sequence of characters
    name_to_id,           \* roster: name -> id, in the order of the rows
    sanitized_instruction,    \* output of anonymize_instruction
    files,                \* file system: path -> content of the file
    save_call,            \* save_json_atomic: locals of the call in progress
    input_data,           \* run request: the document read from the input file
    stream_call,          \* request_llm_stream: locals of the call and the callback log
    span_days,            \* build_calendar_anchor: number of days of the window
    roster_rows,          \* roster.csv: the data rows in file order
    pc                    \* position: "ready" before the operation, then its outcome

vars == <<schedule_pool, debt_list, credit_list, active_ids, area_names,
          area_per_day_counts, llm_result, apply_mode, start_date,
          normalized_ids, restored, new_debt_list, new_credit_list,
          result, runs, llm_call, instruction, name_to_id,
          sanitized_instruction, files, save_call, input_data,
          stream_call, span_days, roster_rows, pc>>

(***************************************************************************)
(* Bounds                                                                  *)
(***************************************************************************)
MaxPool == 2        \* entries of an existing pool
MaxNew == 2         \* new entries of one merge
MaxDays == 2        \* entries of one model schedule
MaxDebt == 2        \* length of a debt list handed to recover_missing_debts
MaxRuns == 2        \* runs of main in one behaviour

(***************************************************************************)
(* Generic helpers                                                         *)
(***************************************************************************)
Range(s) == {s[i] : i \in 1..Len(s)}

SeqsUpTo(S, n) == UNION {[1..k -> S] : k \in 0..n}

MaxOf(S) == CHOOSE x \in S : \A y \in S : y <= x

MinOf(S) == CHOOSE x \in S : \A y \in S : x <= y

\* sorted(set_of_ints)
RECURSIVE SortedInts(_)
SortedInts(S) ==
    IF S = {} THEN <<>>
    ELSE LET m == MinOf(S) IN <<m>> \o SortedInts(S \ {m})

(***************************************************************************)
(* Python str: code points, comparison, strip                              *)
(***************************************************************************)
Digits == <<"0", "1", "2", "3", "4", "5", "6", "7", "8", "9">>

IsDigit(c) == c \in Range(Digits)

DigitVal(c) == (CHOOSE i \in 1..10 : Digits[i] = c) - 1

\* ord(c) for the characters that occur in date strings
Ord(c) ==
    CASE c = " " -> 32
      [] c = "-" -> 45
      [] IsDigit(c) -> 48 + DigitVal(c)
      [] OTHER -> 120

\* a < b for Python str values
StrLess(a, b) ==
    \/ \E i \in 1..Len(a) :
          /\ i <= Len(b)
          /\ \A j \in 1..(i - 1) : a[j] = b[j]
          /\ Ord(a[i]) < Ord(b[i])
    \/ /\ Len(a) < Len(b)
       /\ \A j \in 1..Len(a) : a[j] = b[j]

\* sorted(set_of_str)
RECURSIVE SortedStrs(_)
SortedStrs(S) ==
    IF S = {} THEN <<>>
    ELSE LET m == CHOOSE x \in S : \A y \in S \ {x} : StrLess(x, y)
         IN  <<m>> \o SortedStrs(S \ {m})

\* str.strip()
RECURSIVE Strip(_)
Strip(s) ==
    IF s = <<>> THEN s
    ELSE IF Head(s) = " " THEN Strip(Tail(s))
    ELSE IF s[Len(s)] = " " THEN Strip(SubSeq(s, 1, Len(s) - 1))
    ELSE s

(***************************************************************************)
(* Calendar dates, strptime("%Y-%m-%d") and strftime("%Y-%m-%d")           *)
(***************************************************************************)
IsLeap(y) == (y % 4 = 0 /\ y % 100 # 0) \/ y % 400 = 0

DaysInMonth(y, m) ==
    IF m = 2 THEN (IF IsLeap(y) THEN 29 ELSE 28)
    ELSE IF m \in {4, 6, 9, 11} THEN 30 ELSE 31

\* date < date
DateLess(a, b) ==
    \/ a[1] < b[1]
    \/ a[1] = b[1] /\ a[2] < b[2]
    \/ a[1] = b[1] /\ a[2] = b[2] /\ a[3] < b[3]

DateLeq(a, b) == a = b \/ DateLess(a, b)

\* %m : 1[0-2]|0[1-9]|[1-9]
MonthToken(t) ==
    IF Len(t) = 1 /\ IsDigit(t[1]) /\ t[1] # "0" THEN DigitVal(t[1])
    ELSE IF Len(t) = 2 /\ t[1] = "0" /\ IsDigit(t[2]) /\ t[2] # "0" THEN DigitVal(t[2])
    ELSE IF Len(t) = 2 /\ t[1] = "1" /\ t[2] \in {"0", "1", "2"} THEN 10 + DigitVal(t[2])
    ELSE 0

\* %d : 3[01]|[12]\d|0[1-9]|[1-9]| [1-9]
DayToken(t) ==
    IF Len(t) = 1 /\ IsDigit(t[1]) /\ t[1] # "0" THEN DigitVal(t[1])
    ELSE IF Len(t) = 2 /\ t[1] \in {"0", " "} /\ IsDigit(t[2]) /\ t[2] # "0" THEN DigitVal(t[2])
    ELSE IF Len(t) = 2 /\ t[1] \in {"1", "2"} /\ IsDigit(t[2]) THEN 10 * DigitVal(t[1]) + DigitVal(t[2])
    ELSE IF Len(t) = 2 /\ t[1] = "3" /\ t[2] \in {"0", "1"} THEN 30 + DigitVal(t[2])
    ELSE 0

\* datetime.strptime(s, "%Y-%m-%d").date(); <<0, 0, 0>> stands for ValueError
NoDate == <<0, 0, 0>>

ParseDate(s) ==
    IF Len(s) < 8 \/ Len(s) > 10 THEN NoDate
    ELSE IF ~(\A i \in 1..4 : IsDigit(s[i])) \/ s[5] # "-" THEN NoDate
    ELSE LET y == 1000 * DigitVal(s[1]) + 100 * DigitVal(s[2])
                  + 10 * DigitVal(s[3]) + DigitVal(s[4])
             dash == IF s[7] = "-" THEN 7 ELSE IF s[8] = "-" THEN 8 ELSE 0
         IN  IF dash = 0 \/ y = 0 THEN NoDate
             ELSE LET m == MonthToken(SubSeq(s, 6, dash - 1))
                      d == DayToken(SubSeq(s, dash + 1, Len(s)))
                  IN  IF m = 0 \/ d = 0 THEN NoDate
                      ELSE IF d > DaysInMonth(y, m) THEN NoDate
                      ELSE <<y, m, d>>

Pad2(n) == <<Digits[(n \div 10) + 1], Digits[(n % 10) + 1]>>

\* date.strftime("%Y-%m-%d")
FormatDate(d) ==
    <<Digits[(d[1] \div 1000) + 1], Digits[((d[1] \div 100) % 10) + 1],
      Digits[((d[1] \div 10) % 10) + 1], Digits[(d[1] % 10) + 1]>>
    \o <<"-">> \o Pad2(d[2]) \o <<"-">> \o Pad2(d[3])

\* date.weekday(), Monday = 0 (Zeller-free: days since 0001-01-01, a Monday)
DaysBeforeYear(y) == (y - 1) * 365 + (y - 1) \div 4 - (y - 1) \div 100 + (y - 1) \div 400

RECURSIVE DaysBeforeMonth(_, _)
DaysBeforeMonth(y, m) ==
    IF m = 1 THEN 0 ELSE DaysBeforeMonth(y, m - 1) + DaysInMonth(y, m - 1)

Weekday(d) == (DaysBeforeYear(d[1]) + DaysBeforeMonth(d[1], d[2]) + d[3] + 6) % 7

DAY_NAMES == <<"Mon", "Tue", "Wed", "Thu", "Fri", "Sat", "Sun">>

(***************************************************************************)
(* Python dict with insertion order: a sequence of <<key, value>> pairs    *)
(* with pairwise distinct keys                                             *)
(***************************************************************************)
DictKeys(d) == {d[i][1] : i \in 1..Len(d)}

DictHas(d, k) == k \in DictKeys(d)

DictGet(d, k, default) ==
    IF DictHas(d, k) THEN d[CHOOSE i \in 1..Len(d) : d[i][1] = k][2] ELSE default

\* d[k] = v
DictSet(d, k, v) ==
    IF DictHas(d, k) THEN [i \in 1..Len(d) |-> IF d[i][1] = k THEN <<k, v>> ELSE d[i]]
    ELSE Append(d, <<k, v>>)

(***************************************************************************)
(* JSON values of the model output                                         *)
(*   item of an id list : [t |-> "int" | "str" | "bad", v |-> n]           *)
(*                        (the number n, the string "n", a value int()     *)
(*                        rejects)                                         *)
(*   value              : [kind |-> "list", items |-> <<item, ...>>]       *)
(*                        [kind |-> "dict", items |-> dict]                *)
(*                        [kind |-> "none", items |-> <<>>]   (absent/null)*)
(*                        [kind |-> "other", items |-> <<>>]  (truthy      *)
(*                        scalar)                                          *)
(***************************************************************************)
RawInt(n) == [t |-> "int", v |-> n]

RawStr(n) == [t |-> "str", v |-> n]

RawBad == [t |-> "bad", v |-> 0]

JList(items) == [kind |-> "list", items |-> items]

JDict(items) == [kind |-> "dict", items |-> items]

JNone == [kind |-> "none", items |-> <<>>]

JOther == [kind |-> "other", items |-> <<>>]

\* no call of call_llm in progress
NoCall == [mode |-> "none"]

\* call_llm: a parsed model output, or ok = FALSE when call_llm raised
LlmResult(schedule, new_debt_ids, new_credit_ids) ==
    [ok |-> TRUE, schedule |-> schedule, new_debt_ids |-> new_debt_ids,
     new_credit_ids |-> new_credit_ids]

NoLlmResult ==
    [ok |-> FALSE, schedule |-> JNone, new_debt_ids |-> JNone, new_credit_ids |-> JNone]

\* a schedule entry of the model output that is a JSON object; date is
\* str(entry.get("date", "")), the empty string when the key is absent
RawEntry(date_str, area_ids, areas, area_assignments, note) ==
    [is_dict |-> TRUE, date |-> date_str, area_ids |-> area_ids, areas |-> areas,
     area_assignments |-> area_assignments, note |-> note]

\* a schedule entry that is not a JSON object (a number, a string, a list)
NotAnObject ==
    [is_dict |-> FALSE, date |-> <<>>, area_ids |-> JNone, areas |-> JNone,
     area_assignments |-> JNone, note |-> ""]

\* a list of ints read back from state.json
IntList(ids) == JList([i \in 1..Len(ids) |-> RawInt(ids[i])])

\* bool(value)
Truthy(value) == value.kind = "other" \/ value.items # <<>>

\* a or b
Or(a, b) == IF Truthy(a) THEN a ELSE b

\* str(name).strip() for the area names that occur
StripName(name) == IF name = " X" THEN "X" ELSE name

DEFAULT_PER_DAY == 2

(***************************************************************************)
(* Response Normalizer                                                     *)
(***************************************************************************)
RECURSIVE ExtractLoop(_, _, _, _)
ExtractLoop(items, active_set, limit, acc) ==
    IF items = <<>> THEN acc
    ELSE LET raw == Head(items)
         IN  IF raw.t = "bad" THEN ExtractLoop(Tail(items), active_set, limit, acc)
             ELSE IF raw.v \notin active_set \/ raw.v \in Range(acc)
                  THEN ExtractLoop(Tail(items), active_set, limit, acc)
             ELSE IF Len(acc) + 1 >= limit THEN Append(acc, raw.v)
             ELSE ExtractLoop(Tail(items), active_set, limit, Append(acc, raw.v))

\* the extraction without the roster filter
RECURSIVE ExtractAnyLoop(_, _, _)
ExtractAnyLoop(items, limit, acc) ==
    IF items = <<>> THEN acc
    ELSE LET raw == Head(items)
         IN  IF raw.t = "bad" \/ raw.v \in Range(acc)
             THEN ExtractAnyLoop(Tail(items), limit, acc)
             ELSE IF Len(acc) + 1 >= limit THEN Append(acc, raw.v)
             ELSE ExtractAnyLoop(Tail(items), limit, Append(acc, raw.v))

extract_ids_from_value_unfiltered(value, active_set, limit) ==
    IF value.kind # "list" THEN <<>>
    ELSE ExtractAnyLoop(value.items, limit, <<>>)

extract_ids_from_value(value, active_set, limit) ==
    IF value.kind # "list" THEN <<>>
    ELSE ExtractLoop(value.items, active_set, limit, <<>>)

\* the nested append_ids(value) of extract_area_ids, on the ids found so far
RECURSIVE AppendLoop(_, _, _)
AppendLoop(pids, per_area_count, acc) ==
    IF pids = <<>> THEN acc
    ELSE IF Head(pids) \in Range(acc) THEN AppendLoop(Tail(pids), per_area_count, acc)
    ELSE IF Len(acc) + 1 >= per_area_count THEN Append(acc, Head(pids))
    ELSE AppendLoop(Tail(pids), per_area_count, Append(acc, Head(pids)))

append_ids(acc, value, active_set, per_area_count) ==
    IF Len(acc) >= per_area_count THEN acc
    ELSE AppendLoop(extract_ids_from_value(value, active_set, per_area_count),
                    per_area_count, acc)

AreaMapKeys == <<"area_ids", "areas", "area_assignments">>

\* str(area_index)
IndexKey(area_index) == Digits[area_index + 1]

RECURSIVE AreaKeyLoop(_, _, _, _, _, _)
AreaKeyLoop(k, entry, area_name, area_index, active_set, per_area_count) ==
    IF k = 0 THEN <<>>
    ELSE LET acc == AreaKeyLoop(k - 1, entry, area_name, area_index, active_set,
                                per_area_count)
             area_map == entry[AreaMapKeys[k]]
         IN  IF area_map.kind # "dict" THEN acc
             ELSE append_ids(
                      append_ids(acc, DictGet(area_map.items, area_name, JNone),
                                 active_set, per_area_count),
                      DictGet(area_map.items, IndexKey(area_index), JNone),
                      active_set, per_area_count)

\* the extraction followed by a fill of the shortfall with unused active ids
extract_area_ids_force_fill(entry, area_name, area_index, active_set, per_area_count) ==
    LET got == AreaKeyLoop(3, entry, area_name, area_index, active_set, per_area_count)
        spare == SortedInts(active_set \ Range(got))
        missing == per_area_count - Len(got)
        n == IF missing < Len(spare) THEN missing ELSE Len(spare)
    IN  got \o SubSeq(spare, 1, n)

extract_area_ids(entry, area_name, area_index, active_set, per_area_count) ==
    AreaKeyLoop(3, entry, area_name, area_index, active_set, per_area_count)

\* the comprehension without its condition: ids used earlier in the day stay
Unused_keeps_used(ids, used_ids) == ids

\* [pid for pid in extracted_ids if pid not in used_ids]
Unused(ids, used_ids) == SelectSeq(ids, LAMBDA pid : pid \notin used_ids)

\* used_ids that is never updated
IdsOfDict_never_updated(d) == {}

\* ids in the lists of an area dict
IdsOfDict(d) == UNION {Range(d[i][2]) : i \in 1..Len(d)}

\* 1. configured areas, in configuration order (area_index from 0)
RECURSIVE ConfiguredAreas(_, _, _, _, _)
ConfiguredAreas(n, entry, active_set, names, counts) ==
    IF n = 0 THEN <<>>
    ELSE LET day_assignments == ConfiguredAreas(n - 1, entry, active_set, names, counts)
             used_ids == IdsOfDict(day_assignments)
             per_area_count == DictGet(counts, names[n], DEFAULT_PER_DAY)
             extracted_ids == extract_area_ids(entry, names[n], n - 1, active_set,
                                               per_area_count)
         IN  DictSet(day_assignments, names[n], Unused(extracted_ids, used_ids))

\* 2. dynamic areas, in the order of raw_area_ids.items()
RECURSIVE DynamicAreas(_, _, _)
DynamicAreas(items, active_set, day_assignments) ==
    IF items = <<>> THEN day_assignments
    ELSE LET dynamic_area_name == StripName(Head(items)[1])
             used_ids == IdsOfDict(day_assignments)
             final_ids == Unused(extract_ids_from_value(Head(items)[2], active_set, 999),
                                 used_ids)
         IN  IF dynamic_area_name = "" \/ DictHas(day_assignments, dynamic_area_name)
             THEN DynamicAreas(Tail(items), active_set, day_assignments)
             ELSE IF final_ids # <<>>
             THEN DynamicAreas(Tail(items), active_set,
                               DictSet(day_assignments, dynamic_area_name, final_ids))
             ELSE DynamicAreas(Tail(items), active_set, day_assignments)

NormalizeEntry(entry, active_set, names, counts) ==
    LET configured == ConfiguredAreas(Len(names), entry, active_set, names, counts)
        raw_area_ids == Or(entry.area_ids, Or(entry.areas,
                            Or(entry.area_assignments, JDict(<<>>))))
    IN  [date |-> Strip(entry.date),
         area_ids |-> IF raw_area_ids.kind = "dict"
                      THEN DynamicAreas(raw_area_ids.items, active_set, configured)
                      ELSE configured,
         note |-> entry.note]

RECURSIVE normalize_multi_area_schedule_ids(_, _, _, _)
normalize_multi_area_schedule_ids(schedule_raw, active, names, counts) ==
    IF schedule_raw = <<>> THEN <<>>
    ELSE LET entry == Head(schedule_raw)
             rest == normalize_multi_area_schedule_ids(Tail(schedule_raw), active,
                                                       names, counts)
         IN  IF ~entry.is_dict THEN rest
             ELSE IF Len(Strip(entry.date)) < 8 THEN rest
             ELSE <<NormalizeEntry(entry, Range(active), names, counts)>> \o rest


(***************************************************************************)
(* Schema validation and restoration of names                              *)
(***************************************************************************)
\* TRUE when validate_llm_schedule_entries returns, FALSE when it raises
RECURSIVE ValidateLoop(_, _)
ValidateLoop(entries, previous_date) ==
    IF entries = <<>> THEN TRUE
    ELSE LET raw_date == Strip(Head(entries).date)
             current_date == ParseDate(raw_date)
         IN  IF ~Head(entries).is_dict THEN FALSE
             ELSE IF raw_date = <<>> THEN FALSE
             ELSE IF current_date = NoDate THEN FALSE
             ELSE IF previous_date # NoDate /\ DateLess(current_date, previous_date)
                  THEN FALSE
             ELSE ValidateLoop(Tail(entries), current_date)

\* a validation that raises nothing
validate_llm_schedule_entries_accepts_all(schedule_raw) == TRUE

validate_llm_schedule_entries(schedule_raw) ==
    schedule_raw.kind = "list" /\ ValidateLoop(schedule_raw.items, NoDate)

\* roster: ids and their unique names
RosterIds == {1, 2, 3}

id_to_name == [pid \in RosterIds |-> <<"n1", "n2", "n3">>[pid]]

\* [id_to_name[pid] for pid in area_ids if pid in id_to_name]
NamesOf(area_ids) ==
    LET known == SelectSeq(area_ids, LAMBDA pid : pid \in DOMAIN id_to_name)
    IN  [i \in 1..Len(known) |-> id_to_name[known[i]]]

RECURSIVE RestoreConfigured(_, _, _)
RestoreConfigured(n, area_ids_map, names) ==
    IF n = 0 THEN <<>>
    ELSE DictSet(RestoreConfigured(n - 1, area_ids_map, names), names[n],
                 NamesOf(DictGet(area_ids_map, names[n], <<>>)))

RECURSIVE RestoreDynamic(_, _)
RestoreDynamic(items, area_assignments) ==
    IF items = <<>> THEN area_assignments
    ELSE LET dynamic_area_name == StripName(Head(items)[1])
             students == NamesOf(Head(items)[2])
         IN  IF dynamic_area_name = "" \/ DictHas(area_assignments, dynamic_area_name)
             THEN RestoreDynamic(Tail(items), area_assignments)
             ELSE IF students # <<>>
             THEN RestoreDynamic(Tail(items),
                                 DictSet(area_assignments, dynamic_area_name, students))
             ELSE RestoreDynamic(Tail(items), area_assignments)

RECURSIVE restore_schedule(_, _, _)
restore_schedule(normalized, names, existing_notes) ==
    IF normalized = <<>> THEN <<>>
    ELSE LET day_entry == Head(normalized)
             rest == restore_schedule(Tail(normalized), names, existing_notes)
             d == ParseDate(day_entry.date)
             note == IF day_entry.note # "" THEN day_entry.note
                     ELSE DictGet(existing_notes, day_entry.date, "")
         IN  IF d = NoDate THEN rest
             ELSE <<[date |-> day_entry.date,
                     day |-> DAY_NAMES[Weekday(d) + 1],
                     area_assignments |->
                         RestoreDynamic(day_entry.area_ids,
                             RestoreConfigured(Len(names), day_entry.area_ids, names)),
                     note |-> note]>> \o rest

(***************************************************************************)
(* Fairness Ledger                                                         *)
(***************************************************************************)
\* scheduled_set: every id in any area of any day of the normalized schedule
ScheduledSet(normalized_schedule) ==
    UNION {IdsOfDict(normalized_schedule[i].area_ids) :
               i \in 1..Len(normalized_schedule)}

\* the loop without its body: no original id is added back
AddUnscheduled_adds_nothing(ids, scheduled_set, final_set) == final_set

\* for pid in original_debt_list: if pid not in scheduled_set: add
RECURSIVE AddUnscheduled(_, _, _)
AddUnscheduled(ids, scheduled_set, final_set) ==
    IF ids = <<>> THEN final_set
    ELSE AddUnscheduled(Tail(ids), scheduled_set,
                        IF Head(ids) \notin scheduled_set
                        THEN final_set \cup {Head(ids)} ELSE final_set)

\* the audit without its last step (final_debt_set -= scheduled_set)
recover_missing_debts_keeps_scheduled(original_debt_list, new_debt_ids_from_llm, normalized_schedule) ==
    SortedInts(AddUnscheduled(original_debt_list, ScheduledSet(normalized_schedule),
                              Range(new_debt_ids_from_llm)))

recover_missing_debts(original_debt_list, new_debt_ids_from_llm, normalized_schedule) ==
    LET scheduled_set == ScheduledSet(normalized_schedule)
        final_debt_set == AddUnscheduled(original_debt_list, scheduled_set,
                                         Range(new_debt_ids_from_llm))
    IN  SortedInts(final_debt_set \ scheduled_set)

\* the credit step of main
\* the credit step that keeps only what the model reports
remaining_credits_trusts_report(credit, new_credits, normalized_schedule) ==
    SortedInts(Range(new_credits))

remaining_credits(credit, new_credits, normalized_schedule) ==
    SortedInts(AddUnscheduled(credit, ScheduledSet(normalized_schedule),
                              Range(new_credits)))

(***************************************************************************)
(* Pool Merge Engine                                                       *)
(***************************************************************************)
\* by_date[date_key] = entry for every entry in list order, then the
\* entries in sorted(by_date.keys()) order
dedupe_pool_by_date(entries) ==
    LET keyed == {i \in 1..Len(entries) : Strip(entries[i].date) # <<>>}
        keys == {Strip(entries[i].date) : i \in keyed}
        by_date(k) == entries[MaxOf({i \in keyed : Strip(entries[i].date) = k})]
        order == SortedStrs(keys)
    IN  [n \in 1..Len(order) |-> by_date(order[n])]

\* the merge with `return dedupe_pool_by_date(restored)` in the empty
\* replace_overlap branch
merge_schedule_pool_drops_pool(pool, new, mode, start) ==
    LET start_str == FormatDate(start)
        end_str == new[Len(new)].date
        Before(x) == StrLess(x.date, start_str)
        Outside(x) == StrLess(x.date, start_str) \/ StrLess(end_str, x.date)
    IN  CASE mode = "append" -> dedupe_pool_by_date(pool \o new)
          [] mode = "replace_all" -> dedupe_pool_by_date(new)
          [] mode = "replace_future" ->
                 dedupe_pool_by_date(SelectSeq(pool, Before) \o new)
          [] mode = "replace_overlap" ->
                 IF new = <<>> THEN dedupe_pool_by_date(new)
                 ELSE dedupe_pool_by_date(SelectSeq(pool, Outside) \o new)
          [] OTHER -> dedupe_pool_by_date(pool \o new)

merge_schedule_pool(pool, new, mode, start) ==
    LET start_str == FormatDate(start)
        end_str == new[Len(new)].date
        Before(x) == StrLess(x.date, start_str)
        Outside(x) == StrLess(x.date, start_str) \/ StrLess(end_str, x.date)
    IN  CASE mode = "append" -> dedupe_pool_by_date(pool \o new)
          [] mode = "replace_all" -> dedupe_pool_by_date(new)
          [] mode = "replace_future" ->
                 dedupe_pool_by_date(SelectSeq(pool, Before) \o new)
          [] mode = "replace_overlap" ->
                 IF new = <<>> THEN dedupe_pool_by_date(pool)
                 ELSE dedupe_pool_by_date(SelectSeq(pool, Outside) \o new)
          [] OTHER -> dedupe_pool_by_date(pool \o new)

(***************************************************************************)
(* Inputs of the merge specification                                       *)
(***************************************************************************)
\* date strings that strptime accepts: zero-padded, unpadded, space-padded day
Str_02_05 == <<"2", "0", "2", "6", "-", "0", "2", "-", "0", "5">>
Str_2_5 == <<"2", "0", "2", "6", "-", "2", "-", "5">>
Str_02_s9 == <<"2", "0", "2", "6", "-", "0", "2", "-", " ", "9">>
Str_02_10 == <<"2", "0", "2", "6", "-", "0", "2", "-", "1", "0">>

Str_02_09 == <<"2", "0", "2", "6", "-", "0", "2", "-", "0", "9">>

IsoDateStrings == {Str_02_05, Str_02_09, Str_02_10}

ValidDateStrings == {Str_02_05, Str_2_5, Str_02_s9, Str_02_10}

StartDates == {<<2026, 2, 5>>, <<2026, 2, 9>>, <<2026, 2, 10>>}

ApplyModes == {"append", "replace_all", "replace_future", "replace_overlap", "other"}

Notes == {"a", "b"}

\* a pool entry as restore_schedule builds it
PoolEntry(date_str, assignments, note) ==
    [date |-> date_str, day |-> DAY_NAMES[Weekday(ParseDate(date_str)) + 1],
     area_assignments |-> assignments, note |-> note]

MergeEntries == {PoolEntry(s, <<>>, n) : s \in ValidDateStrings, n \in Notes}

\* pools the program persists: outputs of dedupe_pool_by_date
MergePools == {dedupe_pool_by_date(s) : s \in SeqsUpTo(MergeEntries, MaxPool)}

None == <<>>

\* the same, with zero-padded date strings only
MergeEntriesIso == {PoolEntry(s, <<>>, n) : s \in IsoDateStrings, n \in Notes}

MergePoolsIso == {dedupe_pool_by_date(s) : s \in SeqsUpTo(MergeEntriesIso, MaxPool)}

InitMergeInputs(pools, entries) ==
    /\ schedule_pool \in pools
    /\ restored \in SeqsUpTo(entries, MaxNew)
    /\ apply_mode \in ApplyModes
    /\ start_date \in StartDates
    /\ debt_list = <<>>
    /\ credit_list = <<>>
    /\ active_ids = <<>>
    /\ area_names = <<>>
    /\ area_per_day_counts = <<>>
    /\ llm_result = NoLlmResult
    /\ normalized_ids = <<>>
    /\ new_debt_list = <<>>
    /\ new_credit_list = <<>>
    /\ result = None
    /\ runs = 0
    /\ input_data = JOther
    /\ stream_call = <<>>
    /\ span_days = 0
    /\ roster_rows = <<>>
    /\ save_call = <<>>
    /\ files = <<>>
    /\ sanitized_instruction = <<>>
    /\ name_to_id = <<>>
    /\ instruction = <<>>
    /\ llm_call = NoCall
    /\ pc = "ready"

InitMerge == InitMergeInputs(MergePools, MergeEntries)

InitMergeIso == InitMergeInputs(MergePoolsIso, MergeEntriesIso)

\* result = merge_schedule_pool(state_data, restored, apply_mode, start_date)
MergeSchedulePool ==
    /\ pc = "ready"
    /\ result' = merge_schedule_pool(schedule_pool, restored, apply_mode, start_date)
    /\ pc' = "merged"
    /\ UNCHANGED <<llm_call, instruction, name_to_id, sanitized_instruction, files,
                   save_call, input_data,
                stream_call, span_days, roster_rows>>
    /\ UNCHANGED <<schedule_pool, debt_list, credit_list, active_ids, area_names,
                   area_per_day_counts, llm_result, apply_mode, start_date,
                   normalized_ids, restored, new_debt_list, new_credit_list, runs>>

NextMerge == MergeSchedulePool

SpecMerge == InitMerge /\ [][NextMerge]_vars

SpecMergeIso == InitMergeIso /\ [][NextMerge]_vars

(***************************************************************************)
(* Properties of the Pool Merge Engine                                     *)
(***************************************************************************)
\* the calendar date an entry is for
EntryDate(e) == ParseDate(e.date)

DatesOf(entries) == {EntryDate(entries[i]) : i \in 1..Len(entries)}

\* the last entry of a list that is for calendar date d
LastFor(entries, d) ==
    entries[MaxOf({i \in 1..Len(entries) : EntryDate(entries[i]) = d})]

Merged(mode) == pc = "merged" /\ apply_mode = mode

\* C1: whatever the apply mode, the merged pool has no two entries for the
\* same date and its entries are in ascending date order.
C1_MergedPoolUniqueAscending ==
    pc = "merged" =>
        \A i, j \in 1..Len(result) :
            i < j => DateLess(EntryDate(result[i]), EntryDate(result[j]))

\* C2: in replace_future mode every entry of the result that comes from the
\* old pool is dated before the start date, and every entry of the result
\* dated on or after the start date is one of the new entries.
C2_ReplaceFutureSplitsAtStart ==
    Merged("replace_future") =>
        \A e \in Range(result) :
            /\ e \notin Range(restored) => DateLess(EntryDate(e), start_date)
            /\ DateLeq(start_date, EntryDate(e)) => e \in Range(restored)

InSpan(d, first, last) == DateLeq(first, d) /\ DateLeq(d, last)

\* C4: in replace_overlap mode with new entries, every old entry dated
\* outside [start date, date of the last new entry] is in the result, every
\* old entry dated inside it is gone, and the result's entries inside the
\* span are exactly the new entries dated inside it.
C4_ReplaceOverlapKeepsOutsideSpan ==
    (Merged("replace_overlap") /\ restored # <<>>) =>
        LET last == EntryDate(restored[Len(restored)])
        IN  /\ \A e \in Range(schedule_pool) :
                   IF InSpan(EntryDate(e), start_date, last)
                   THEN e \in Range(result) => e \in Range(restored)
                   ELSE e \in Range(result)
            /\ {e \in Range(result) : InSpan(EntryDate(e), start_date, last)}
                   = {LastFor(restored, d) :
                          d \in {x \in DatesOf(restored) : InSpan(x, start_date, last)}}

\* C5: in append mode the dates of the result are the dates of the old pool
\* together with the dates of the new entries, and for a date that both
\* have, the result's entry is the last new entry for that date.
C5_AppendUnionNewWins ==
    Merged("append") =>
        /\ DatesOf(result) = DatesOf(schedule_pool) \cup DatesOf(restored)
        /\ \A e \in Range(result) :
               EntryDate(e) \in DatesOf(schedule_pool) \cap DatesOf(restored)
                   => e = LastFor(restored, EntryDate(e))

\* C6: in replace_all mode no old entry survives: the result consists of
\* new entries only, exactly one for each distinct date of the new entries.
C6_ReplaceAllOnlyNew ==
    Merged("replace_all") =>
        /\ Range(result) \subseteq Range(restored)
        /\ DatesOf(result) = DatesOf(restored)
        /\ \A d \in DatesOf(restored) :
               Cardinality({i \in 1..Len(result) : EntryDate(result[i]) = d}) = 1

(***************************************************************************)
(* recover_missing_debts as a function of its three arguments              *)
(***************************************************************************)
DebtIds == {1, 2, 3}

NormalizedDay(area_ids) == [date |-> Str_02_10, area_ids |-> area_ids, note |-> ""]

DebtDays ==
    {NormalizedDay(<<<<"A", ids>>>>) : ids \in SeqsUpTo(DebtIds, 1)}
    \cup {NormalizedDay(<<<<"A", <<1>>>>, <<"X", <<2>>>>>>),
          NormalizedDay(<<<<"A", <<3, 1>>>>, <<"B", <<>>>>>>)}

InitDebt ==
    /\ debt_list \in SeqsUpTo(DebtIds, MaxDebt)
    /\ new_debt_list \in SeqsUpTo(DebtIds, MaxDebt)
    /\ normalized_ids \in SeqsUpTo(DebtDays, MaxDays)
    /\ schedule_pool = <<>>
    /\ credit_list = <<>>
    /\ active_ids = <<>>
    /\ area_names = <<>>
    /\ area_per_day_counts = <<>>
    /\ llm_result = NoLlmResult
    /\ apply_mode = "append"
    /\ start_date = NoDate
    /\ restored = <<>>
    /\ new_credit_list = <<>>
    /\ result = None
    /\ runs = 0
    /\ input_data = JOther
    /\ stream_call = <<>>
    /\ span_days = 0
    /\ roster_rows = <<>>
    /\ save_call = <<>>
    /\ files = <<>>
    /\ sanitized_instruction = <<>>
    /\ name_to_id = <<>>
    /\ instruction = <<>>
    /\ llm_call = NoCall
    /\ pc = "ready"

\* result = recover_missing_debts(debt_list, new_debt_list, normalized_ids)
RecoverMissingDebts ==
    /\ pc = "ready"
    /\ result' = recover_missing_debts(debt_list, new_debt_list, normalized_ids)
    /\ pc' = "recovered"
    /\ UNCHANGED <<llm_call, instruction, name_to_id, sanitized_instruction, files,
                   save_call, input_data,
                stream_call, span_days, roster_rows>>
    /\ UNCHANGED <<schedule_pool, debt_list, credit_list, active_ids, area_names,
                   area_per_day_counts, llm_result, apply_mode, start_date,
                   normalized_ids, restored, new_debt_list, new_credit_list, runs>>

NextDebt == RecoverMissingDebts

SpecDebt == InitDebt /\ [][NextDebt]_vars

\* strictly ascending: sorted and free of duplicates
Ascending(ids) == \A i, j \in 1..Len(ids) : i < j => ids[i] < ids[j]

\* every id of every area list of every day
AllScheduled(days) ==
    {pid \in DebtIds \cup RosterIds :
        \E i \in 1..Len(days) : \E a \in 1..Len(days[i].area_ids) :
            pid \in Range(days[i].area_ids[a][2])}

\* C7: recover_missing_debts returns (N \cup (D \ S)) \ S as a sorted list
\* without duplicates, D the original debt list, N the reported new debt
\* list, S the ids scheduled in any area on any day.
C7_RecoveredDebtIsAuditedSet ==
    pc = "recovered" =>
        LET S == AllScheduled(normalized_ids)
            D == Range(debt_list)
            N == Range(new_debt_list)
        IN  /\ Ascending(result)
            /\ Range(result) = (N \cup (D \ S)) \ S

C7_Witness ==
    /\ pc = "recovered"
    /\ debt_list = <<1, 2>>
    /\ new_debt_list = <<3>>
    /\ AllScheduled(normalized_ids) = {1}
    /\ result = <<2, 3>>

(***************************************************************************)
(* normalize_multi_area_schedule_ids as a function of its four arguments   *)
(***************************************************************************)
MaxQuota == 2       \* largest per-day quota of an area

\* id lists as the model may write them: more ids than the quota, ids that
\* are not active or not in the roster, repeated ids, strings, junk
ListOverfull == JList(<<RawInt(3), RawInt(4), RawInt(2)>>)

ListRepeats == JList(<<RawInt(2), RawBad, RawInt(2), RawInt(1), RawInt(3)>>)

ListStrings == JList(<<RawStr(1), RawInt(5)>>)

NormAreaMaps ==
    {JNone, JDict(<<>>)}
    \cup {JDict(<<<<"A", a>>, <<"B", b>>>>) :
              a \in {ListOverfull, ListRepeats, JOther}, b \in {ListRepeats, ListStrings}}
    \cup {JDict(<<<<"X", a>>, <<"0", b>>>>) :
              a \in {ListRepeats, JList(<<>>)}, b \in {ListOverfull, ListStrings}}
    \cup {JDict(<<<<" X", JList(<<RawInt(1)>>)>>, <<"X", JList(<<RawInt(2)>>)>>,
                  <<"1", JList(<<RawInt(1), RawInt(3)>>)>>>>)}

NormAltMaps == {JNone, JDict(<<<<"A", JList(<<RawInt(1), RawInt(2), RawInt(3)>>)>>>>)}

Str_short == <<"2", "0", "2", "6">>

NormEntries ==
    {RawEntry(Str_02_10, m, alt, JNone, "") : m \in NormAreaMaps, alt \in NormAltMaps}
    \cup {RawEntry(Str_02_10, JNone, JNone, alt, "n") : alt \in NormAltMaps}
    \cup {RawEntry(Str_short, JNone, alt, JNone, "") : alt \in NormAltMaps}
    \cup {RawEntry(Str_02_10, JDict(<<<<"A", JList(<<RawInt(1)>>)>>>>),
                    JDict(<<<<"X", JList(<<RawInt(2)>>)>>>>), JNone, ""),
          NotAnObject}

NormActive == {<<1, 2>>, <<1, 2, 3>>}

NormAreaNames == {<<"A">>, <<"A", "B">>}

\* quota per configured area; an area without an entry gets DEFAULT_PER_DAY
NormCounts ==
    {<<>>} \cup {<<<<"A", a>>, <<"B", b>>>> : a, b \in 1..MaxQuota}

InitNorm ==
    /\ llm_result \in {LlmResult(JList(sch), JNone, JNone) :
                          sch \in SeqsUpTo(NormEntries, MaxDays) \ {<<>>}}
    /\ active_ids \in NormActive
    /\ area_names \in NormAreaNames
    /\ area_per_day_counts \in NormCounts
    /\ schedule_pool = <<>>
    /\ debt_list = <<>>
    /\ credit_list = <<>>
    /\ apply_mode = "append"
    /\ start_date = NoDate
    /\ normalized_ids = <<>>
    /\ restored = <<>>
    /\ new_debt_list = <<>>
    /\ new_credit_list = <<>>
    /\ result = None
    /\ runs = 0
    /\ input_data = JOther
    /\ stream_call = <<>>
    /\ span_days = 0
    /\ roster_rows = <<>>
    /\ save_call = <<>>
    /\ files = <<>>
    /\ sanitized_instruction = <<>>
    /\ name_to_id = <<>>
    /\ instruction = <<>>
    /\ llm_call = NoCall
    /\ pc = "ready"

\* normalized_ids = normalize_multi_area_schedule_ids(schedule_raw, active_ids,
\*                      area_names, area_per_day_counts)
NormalizeSchedule ==
    /\ pc = "ready"
    /\ normalized_ids' = normalize_multi_area_schedule_ids(
                             llm_result.schedule.items, active_ids, area_names,
                             area_per_day_counts)
    /\ pc' = "normalized"
    /\ UNCHANGED <<llm_call, instruction, name_to_id, sanitized_instruction, files,
                   save_call, input_data,
                stream_call, span_days, roster_rows>>
    /\ UNCHANGED <<schedule_pool, debt_list, credit_list, active_ids, area_names,
                   area_per_day_counts, llm_result, apply_mode, start_date,
                   restored, new_debt_list, new_credit_list, result, runs>>

NextNorm == NormalizeSchedule

SpecNorm == InitNorm /\ [][NextNorm]_vars

Quota(area) == DictGet(area_per_day_counts, area, DEFAULT_PER_DAY)

\* C10: for each configured area a normalized day holds at most that area's
\* quota of ids, and every id of every area of the day, configured or
\* dynamic, is an active id.
C10_QuotaAndActiveOnly ==
    pc = "normalized" =>
        \A i \in 1..Len(normalized_ids) :
            \A a \in 1..Len(normalized_ids[i].area_ids) :
                LET area == normalized_ids[i].area_ids[a][1]
                    ids == normalized_ids[i].area_ids[a][2]
                IN  /\ Range(ids) \subseteq Range(active_ids)
                    /\ area \in Range(area_names) => Len(ids) <= Quota(area)

\* an over-full list with an inactive id was cut down to the quota
C10_Witness ==
    /\ pc = "normalized"
    /\ active_ids = <<1, 2>>
    /\ Quota("A") = 1
    /\ \E i \in 1..Len(normalized_ids) :
          /\ llm_result.schedule.items[i].area_ids =
                 JDict(<<<<"A", ListOverfull>>, <<"B", ListRepeats>>>>)
          /\ Len(normalized_ids) = Len(llm_result.schedule.items)
          /\ normalized_ids[i].area_ids[1] = <<"A", <<2>>>>

\* the raw entries that normalize_multi_area_schedule_ids does not skip
KeptEntries ==
    SelectSeq(llm_result.schedule.items, LAMBDA e : e.is_dict /\ Len(Strip(e.date)) >= 8)

\* positions of a raw id list that hold the first occurrence of an active id
FirstPositions(items, active) ==
    {p \in 1..Len(items) :
        /\ items[p].t # "bad"
        /\ items[p].v \in active
        /\ \A r \in 1..(p - 1) : items[r].t = "bad" \/ items[r].v # items[p].v}

\* the first q distinct active ids of a raw id list, in the order of the list
FirstDistinctActive(items, active, q) ==
    LET positions == SortedInts(FirstPositions(items, active))
        n == IF Len(positions) < q THEN Len(positions) ELSE q
    IN  [k \in 1..n |-> items[positions[k]].v]

\* the model supplies the ids of the area as one list, under area_ids and
\* the name of the area, and nowhere else in the entry
SuppliedByName(entry, area_name, area_index) ==
    /\ entry.area_ids.kind = "dict"
    /\ DictGet(entry.area_ids.items, area_name, JNone).kind = "list"
    /\ ~DictHas(entry.area_ids.items, IndexKey(area_index))
    /\ \A k \in {"areas", "area_assignments"} :
           entry[k].kind = "dict" =>
               /\ ~DictHas(entry[k].items, area_name)
               /\ ~DictHas(entry[k].items, IndexKey(area_index))

\* ids of the configured areas before the n-th in a normalized day
ClaimedBefore(day, n) ==
    UNION {Range(DictGet(day.area_ids, area_names[m], <<>>)) : m \in 1..(n - 1)}

\* C11: when the model gives the ids of a configured area as one list under
\* area_ids[area name], the normalized list of the area is the first q
\* distinct active ids of that list in the model's order (q the quota of the
\* area), without the ids that an earlier configured area of the day holds.
C11_ConfiguredAreaFirstQuotaIds ==
    pc = "normalized" =>
        /\ Len(normalized_ids) = Len(KeptEntries)
        /\ \A i \in 1..Len(normalized_ids), n \in 1..Len(area_names) :
               SuppliedByName(KeptEntries[i], area_names[n], n - 1) =>
                   DictGet(normalized_ids[i].area_ids, area_names[n], None) =
                       SelectSeq(FirstDistinctActive(
                                     DictGet(KeptEntries[i].area_ids.items,
                                             area_names[n], JNone).items,
                                     Range(active_ids), Quota(area_names[n])),
                                 LAMBDA pid : pid \notin ClaimedBefore(normalized_ids[i], n))

\* [3, 4, 2] with quota 2 gives [3, 2]; the second area loses the id 2 that
\* the first area holds
C11_Witness ==
    /\ pc = "normalized"
    /\ active_ids = <<1, 2, 3>>
    /\ area_names = <<"A", "B">>
    /\ Quota("A") = 2
    /\ Quota("B") = 2
    /\ Len(normalized_ids) = 1
    /\ KeptEntries[1].area_ids = JDict(<<<<"A", ListOverfull>>, <<"B", ListRepeats>>>>)
    /\ KeptEntries[1].areas = JNone
    /\ normalized_ids[1].area_ids = <<<<"A", <<3, 2>>>>, <<"B", <<1>>>>>>

\* no id twice in one area and no id in two areas of a normalized day
NoIdTwice(day) ==
    /\ \A a \in 1..Len(day) :
           \A p, r \in 1..Len(day[a][2]) : p # r => day[a][2][p] # day[a][2][r]
    /\ \A a, b \in 1..Len(day) :
           a # b => Range(day[a][2]) \cap Range(day[b][2]) = {}

\* the configured areas under whose name the raw area_ids of the entry
\* lists the id
ListingAreas(entry, pid) ==
    {n \in 1..Len(area_names) :
        /\ entry.area_ids.kind = "dict"
        /\ LET value == DictGet(entry.area_ids.items, area_names[n], JNone)
           IN  /\ value.kind = "list"
               /\ \E p \in 1..Len(value.items) :
                      value.items[p].t # "bad" /\ value.items[p].v = pid}

\* C12 as stated: no id occurs twice in a normalized day, and an active id
\* that the model lists under several configured areas is held by the first
\* of these areas in configuration order.
C12_FirstListingAreaKeeps ==
    pc = "normalized" =>
        \A i \in 1..Len(normalized_ids) :
            /\ NoIdTwice(normalized_ids[i].area_ids)
            /\ \A pid \in Range(active_ids) :
                   LET listing == ListingAreas(KeptEntries[i], pid)
                   IN  Cardinality(listing) >= 2 =>
                           pid \in Range(DictGet(normalized_ids[i].area_ids,
                                                 area_names[MinOf(listing)], <<>>))

\* C12, amended: no id occurs twice in a normalized day, and an area holds
\* no id that is among the first q distinct active ids of the list of a
\* configured area processed before it (q that area's quota); an id that
\* the earlier area lists beyond its quota may be held by a later area.
C12_NoIdTwiceEarlierAreaWins ==
    pc = "normalized" =>
        \A i \in 1..Len(normalized_ids) :
            LET day == normalized_ids[i].area_ids
            IN  /\ NoIdTwice(day)
                /\ \A n \in 1..Len(area_names), b \in 1..Len(day) :
                       (b > n /\ SuppliedByName(KeptEntries[i], area_names[n], n - 1)) =>
                           Range(day[b][2]) \cap
                               Range(FirstDistinctActive(
                                         DictGet(KeptEntries[i].area_ids.items,
                                                 area_names[n], JNone).items,
                                         Range(active_ids), Quota(area_names[n]))) = {}

\* ids 2 and 3 are listed under A and B; A with quota 1 holds 3, and 2,
\* which A lists beyond its quota, is held by B
C12_Witness ==
    /\ pc = "normalized"
    /\ active_ids = <<1, 2, 3>>
    /\ area_names = <<"A", "B">>
    /\ Quota("A") = 1
    /\ Quota("B") = 2
    /\ Len(normalized_ids) = 1
    /\ KeptEntries[1].area_ids = JDict(<<<<"A", ListOverfull>>, <<"B", ListRepeats>>>>)
    /\ KeptEntries[1].areas = JNone
    /\ normalized_ids[1].area_ids = <<<<"A", <<3>>>>, <<"B", <<2, 1>>>>>>

\* the ids that a raw value holds: int(raw) of the items int() accepts
RawIds(value) ==
    IF value.kind # "list" THEN {}
    ELSE {value.items[p].v : p \in {r \in 1..Len(value.items) : value.items[r].t # "bad"}}

\* the ids the raw entry gives for a configured area: under the area's name
\* or its positional index, in any of the accepted area maps
SuppliedConfigured(entry, area_name, area_index) ==
    UNION {RawIds(DictGet(entry[k].items, key, JNone)) :
               k \in {m \in Range(AreaMapKeys) : entry[m].kind = "dict"},
               key \in {area_name, IndexKey(area_index)}}

\* the raw area map that the dynamic areas are read from
RawAreaIds(entry) ==
    Or(entry.area_ids, Or(entry.areas, Or(entry.area_assignments, JDict(<<>>))))

\* the ids the raw entry gives under the keys that name a dynamic area
SuppliedDynamic(entry, area_name) ==
    LET raw == RawAreaIds(entry)
    IN  IF raw.kind # "dict" THEN {}
        ELSE UNION {RawIds(raw.items[j][2]) :
                        j \in {r \in 1..Len(raw.items) :
                                  StripName(raw.items[r][1]) = area_name}}

\* the ids the raw entry gives for the a-th area of its normalized day
SuppliedFor(entry, day, a) ==
    IF a <= Len(area_names) THEN SuppliedConfigured(entry, area_names[a], a - 1)
    ELSE SuppliedDynamic(entry, day[a][1])

\* C13: every id of a normalized area list occurs in the raw entry of that
\* day under the area's name or positional index (for a dynamic area, under
\* its own key), and the list is never longer than the number of active ids
\* the raw entry gives for the area: a shortfall against the quota stays.
C13_NoFabricatedIds ==
    pc = "normalized" =>
        /\ Len(normalized_ids) = Len(KeptEntries)
        /\ \A i \in 1..Len(normalized_ids) :
               LET day == normalized_ids[i].area_ids
               IN  \A a \in 1..Len(day) :
                       LET supplied == SuppliedFor(KeptEntries[i], day, a)
                       IN  /\ Range(day[a][2]) \subseteq supplied
                           /\ Len(day[a][2]) <=
                                  Cardinality(supplied \cap Range(active_ids))

\* area B has quota 2 and the model gives one active id for it: the list
\* of B holds that id only
C13_Witness ==
    /\ pc = "normalized"
    /\ active_ids = <<1, 2>>
    /\ area_names = <<"A", "B">>
    /\ Quota("A") = 1
    /\ Quota("B") = 2
    /\ Len(normalized_ids) = 1
    /\ KeptEntries[1].area_ids = JDict(<<<<"A", ListRepeats>>, <<"B", ListStrings>>>>)
    /\ KeptEntries[1].areas = JNone
    /\ normalized_ids[1].area_ids = <<<<"A", <<2>>>>, <<"B", <<1>>>>>>

\* the area names of the raw area maps of an entry that are neither a
\* configured area nor the positional index of one, with their raw values
RawDynamicAreas(entry) ==
    UNION {{entry[k].items[j] :
               j \in {r \in 1..Len(entry[k].items) :
                         /\ entry[k].items[r][1] \notin Range(area_names)
                         /\ \A n \in 1..Len(area_names) :
                                entry[k].items[r][1] # IndexKey(n - 1)}} :
           k \in {m \in Range(AreaMapKeys) : entry[m].kind = "dict"}}

\* ids of the areas before the a-th in a normalized day
UsedBefore(day, a) == UNION {Range(day[b][2]) : b \in 1..(a - 1)}

\* C14: every area that a raw area map of the entry (area_ids, areas or
\* area_assignments) names and that is not configured is an area of the
\* normalized day under the same name, and its list is all the active ids
\* of the raw list, in raw order, that no earlier area of the day holds.
C14_DynamicAreasKept ==
    pc = "normalized" =>
        \A i \in 1..Len(normalized_ids) :
            LET day == normalized_ids[i].area_ids
            IN  \A area \in RawDynamicAreas(KeptEntries[i]) :
                    \E a \in 1..Len(day) :
                        /\ day[a][1] = area[1]
                        /\ day[a][2] =
                               SelectSeq(FirstDistinctActive(area[2].items,
                                             Range(active_ids), Len(area[2].items)),
                                         LAMBDA pid : pid \notin UsedBefore(day, a))

(***************************************************************************)
(* validate_llm_schedule_entries as a function of the parsed schedule      *)
(***************************************************************************)
Str_02_30 == <<"2", "0", "2", "6", "-", "0", "2", "-", "3", "0">>

Str_sp_02_05 == <<" ">> \o Str_02_05

\* dates of model entries: accepted by strptime, the empty string of an
\* entry without date, too short, not a calendar date, padded with a space
ValidateDateStrings ==
    ValidDateStrings \cup {Str_02_09, <<>>, Str_short, Str_02_30, Str_sp_02_05}

ValidateEntries ==
    {RawEntry(d, JNone, JNone, JNone, "") : d \in ValidateDateStrings}
    \cup {NotAnObject}

ValidateSchedules ==
    {JList(sch) : sch \in SeqsUpTo(ValidateEntries, MaxDays)}
    \cup {JNone, JDict(<<>>)}

InitValidate ==
    /\ llm_result \in {LlmResult(sch, JNone, JNone) : sch \in ValidateSchedules}
    /\ active_ids = <<>>
    /\ area_names = <<>>
    /\ area_per_day_counts = <<>>
    /\ schedule_pool = <<>>
    /\ debt_list = <<>>
    /\ credit_list = <<>>
    /\ apply_mode = "append"
    /\ start_date = NoDate
    /\ normalized_ids = <<>>
    /\ restored = <<>>
    /\ new_debt_list = <<>>
    /\ new_credit_list = <<>>
    /\ result = "none"
    /\ runs = 0
    /\ input_data = JOther
    /\ stream_call = <<>>
    /\ span_days = 0
    /\ roster_rows = <<>>
    /\ save_call = <<>>
    /\ files = <<>>
    /\ sanitized_instruction = <<>>
    /\ name_to_id = <<>>
    /\ instruction = <<>>
    /\ llm_call = NoCall
    /\ pc = "ready"

\* validate_llm_schedule_entries(schedule_raw): returns or raises ValueError
ValidateSchedule ==
    /\ pc = "ready"
    /\ result' = IF validate_llm_schedule_entries(llm_result.schedule)
                 THEN "ok" ELSE "error"
    /\ pc' = "validated"
    /\ UNCHANGED <<llm_call, instruction, name_to_id, sanitized_instruction, files,
                   save_call, input_data,
                stream_call, span_days, roster_rows>>
    /\ UNCHANGED <<schedule_pool, debt_list, credit_list, active_ids, area_names,
                   area_per_day_counts, llm_result, apply_mode, start_date,
                   normalized_ids, restored, new_debt_list, new_credit_list, runs>>

NextValidate == ValidateSchedule

SpecValidate == InitValidate /\ [][NextValidate]_vars

\* YYYY-MM-DD: four digits, two digits, two digits, of a calendar date
IsoDate(s) ==
    IF Len(s) # 10 \/ s[5] # "-" \/ s[8] # "-" THEN NoDate
    ELSE IF \E i \in {1, 2, 3, 4, 6, 7, 9, 10} : ~IsDigit(s[i]) THEN NoDate
    ELSE LET y == 1000 * DigitVal(s[1]) + 100 * DigitVal(s[2])
                  + 10 * DigitVal(s[3]) + DigitVal(s[4])
             m == 10 * DigitVal(s[6]) + DigitVal(s[7])
             d == 10 * DigitVal(s[9]) + DigitVal(s[10])
         IN  IF y >= 1 /\ m \in 1..12 /\ d >= 1 /\ d <= DaysInMonth(y, m)
             THEN <<y, m, d>> ELSE NoDate

\* a list of objects whose dates are valid YYYY-MM-DD dates, none earlier
\* than the date of the entry before it
ValidSortedSchedule(schedule) ==
    /\ schedule.kind = "list"
    /\ \A i \in 1..Len(schedule.items) :
           /\ schedule.items[i].is_dict
           /\ IsoDate(Strip(schedule.items[i].date)) # NoDate
    /\ \A i \in 2..Len(schedule.items) :
           ~DateLess(IsoDate(Strip(schedule.items[i].date)),
                     IsoDate(Strip(schedule.items[i - 1].date)))

\* C15: validate_llm_schedule_entries returns exactly for the lists of
\* objects whose dates are valid YYYY-MM-DD calendar dates in non-decreasing
\* order, and raises for every other schedule.
C15_ValidationAcceptsExactlyValid ==
    pc = "validated" =>
        (result = "ok" <=> ValidSortedSchedule(llm_result.schedule))

(***************************************************************************)
(* main: one run of the orchestrator                                       *)
(***************************************************************************)
\* d + timedelta(days=1)
NextDay(d) ==
    IF d[3] < DaysInMonth(d[1], d[2]) THEN <<d[1], d[2], d[3] + 1>>
    ELSE IF d[2] < 12 THEN <<d[1], d[2] + 1, 1>>
    ELSE <<d[1] + 1, 1, 1>>

\* the dates of get_pool_entries_with_date: entries whose date strptime accepts
PoolDates(pool) == {ParseDate(pool[i].date) : i \in 1..Len(pool)} \ {NoDate}

\* the latest of a non-empty set of dates (entries[-1][1] after the sort)
LatestDate(dates) == CHOOSE d \in dates : \A e \in dates : DateLeq(e, d)

\* start date of the run
RunStartDate(pool, mode, today_date) ==
    IF mode = "append" /\ PoolDates(pool) # {}
    THEN NextDay(LatestDate(PoolDates(pool)))
    ELSE today_date

\* The steps of main after normalization; valid tells whether call_llm and
\* validate_llm_schedule_entries returned, debt and credit are the lists read
\* from state.json, the other arguments the locals of main of the same name.
Persist(llm, mode, start, valid, debt, credit, normalized, new_debts, new_credits, new_entries) ==
    /\ runs < MaxRuns
    /\ pc \in {"ready", "ran"}
    /\ runs' = runs + 1
    /\ pc' = "ran"
    /\ llm_result' = llm
    /\ apply_mode' = mode
    /\ start_date' = start
    /\ UNCHANGED <<active_ids, area_names, area_per_day_counts, llm_call,
                 instruction, name_to_id, sanitized_instruction, files, save_call, input_data,
                stream_call, span_days, roster_rows>>
    /\ IF valid
       THEN /\ normalized_ids' = normalized
            /\ new_debt_list' = new_debts
            /\ new_credit_list' = new_credits
            /\ restored' = new_entries
       ELSE /\ normalized_ids' = <<>>
            /\ new_debt_list' = <<>>
            /\ new_credit_list' = <<>>
            /\ restored' = <<>>
    /\ IF valid /\ new_entries # <<>>
       THEN /\ debt_list' = recover_missing_debts(debt, new_debts, normalized)
            /\ credit_list' = remaining_credits(credit, new_credits, normalized)
            /\ schedule_pool' = merge_schedule_pool(schedule_pool, new_entries,
                                                    mode, start)
            /\ result' = "success"
       ELSE /\ UNCHANGED <<schedule_pool, debt_list, credit_list>>
            /\ result' = "error"

\* The run from call_llm to write_result: llm is the outcome of call_llm,
\* mode the requested apply_mode, today_date the clock, existing_notes the
\* notes of the run request.
Main(llm, mode, today_date, existing_notes) ==
    \E valid \in {llm.ok /\ validate_llm_schedule_entries(llm.schedule)} :
    \E normalized \in {normalize_multi_area_schedule_ids(
                           llm.schedule.items, active_ids, area_names,
                           area_per_day_counts)} :
    \E new_entries \in {restore_schedule(normalized, area_names, existing_notes)} :
        Persist(llm, mode, RunStartDate(schedule_pool, mode, today_date), valid,
                extract_ids_from_value(IntList(debt_list), Range(active_ids), 9999),
                extract_ids_from_value(IntList(credit_list), Range(active_ids), 9999),
                normalized,
                extract_ids_from_value(llm.new_debt_ids, Range(active_ids), 9999),
                extract_ids_from_value(llm.new_credit_ids, Range(active_ids), 9999),
                new_entries)

\* inputs of the runs
Today == <<2026, 2, 9>>

RunActiveIds == <<1, 2>>

RunAreaNames == <<"A", "B">>

RunAreaCounts == <<<<"A", 1>>, <<"B", 1>>>>

RunAreaMaps ==
    {JDict(<<<<"A", JList(<<RawInt(1)>>)>>>>),
     JDict(<<<<"A", JList(<<RawInt(3)>>)>>, <<"X", JList(<<RawInt(2)>>)>>>>)}

RunEntries == {RawEntry(Str_02_10, m, JNone, JNone, "") : m \in RunAreaMaps}

RunDebtReports ==
    {JList(<<>>), JList(<<RawInt(1)>>), JList(<<RawInt(3), RawStr(2)>>)}

RunCreditReports == {JNone, JList(<<RawInt(1)>>), JList(<<RawInt(2), RawInt(1)>>)}

RunModes == {"append", "replace_overlap"}

RunLlmResults ==
    {LlmResult(JList(sch), d, c) :
         sch \in SeqsUpTo(RunEntries, MaxDays), d \in RunDebtReports,
         c \in RunCreditReports}
    \cup {NoLlmResult}

InitRun ==
    /\ schedule_pool = <<>>
    /\ debt_list = <<>>
    /\ credit_list = <<>>
    /\ active_ids = RunActiveIds
    /\ area_names = RunAreaNames
    /\ area_per_day_counts = RunAreaCounts
    /\ llm_result = NoLlmResult
    /\ apply_mode = "append"
    /\ start_date = NoDate
    /\ normalized_ids = <<>>
    /\ restored = <<>>
    /\ new_debt_list = <<>>
    /\ new_credit_list = <<>>
    /\ result = "none"
    /\ runs = 0
    /\ input_data = JOther
    /\ stream_call = <<>>
    /\ span_days = 0
    /\ roster_rows = <<>>
    /\ save_call = <<>>
    /\ files = <<>>
    /\ sanitized_instruction = <<>>
    /\ name_to_id = <<>>
    /\ instruction = <<>>
    /\ llm_call = NoCall
    /\ pc = "ready"

Run == \E llm \in RunLlmResults, mode \in RunModes : Main(llm, mode, Today, <<>>)

NextRun == Run

SpecRun == InitRun /\ [][NextRun]_vars

\* C8: an id of the persisted debt list leaves the list only in a successful
\* run whose normalized output schedules it; after every run that does not
\* schedule it, it is still in the list, whatever the model reported.
C8_DebtLeavesOnlyWhenScheduled ==
    [][\A pid \in Range(debt_list) :
           pid \notin Range(debt_list') =>
               (result' = "success" /\ pid \in AllScheduled(normalized_ids'))]_vars

\* a debt the model left out of its report and did not schedule is still owed
C8_Witness ==
    /\ pc = "ran"
    /\ runs = 2
    /\ result = "success"
    /\ 1 \in Range(debt_list)
    /\ 1 \notin Range(new_debt_list)
    /\ AllScheduled(normalized_ids) = {2}

\* C9: after a successful run the persisted credit list holds no id that the
\* run's normalized output schedules.
C9_CreditExcludesScheduled ==
    (pc = "ran" /\ result = "success") =>
        Range(credit_list) \cap AllScheduled(normalized_ids) = {}

(***************************************************************************)
(* LLM Transport Layer                                                     *)
(*                                                                         *)
(* A text is [fence, doc]: doc is the text without a Markdown code fence,  *)
(* fence tells whether the text wraps doc in ```json ... ```.  A response  *)
(* of the endpoint is an exception of urlopen or a body: a body with SSE   *)
(* data frames (text: the joined text of the frames) or a body without     *)
(* them (raw: what the whole body is, text: the assistant text of the      *)
(* first choice when the body is a JSON chat response).                    *)
(***************************************************************************)
LLM_MAX_RETRIES == 2

LLM_RETRY_BACKOFF_SECONDS == 2

LLM_PARSE_MAX_RETRIES == 1

\* the largest value of LLM_PARSE_MAX_RETRIES a call is run with
MaxParseRetries == 2

\* the values of LLM_PARSE_MAX_RETRIES a call is run with
ParseRetryBudgets == LLM_PARSE_MAX_RETRIES..MaxParseRetries

Text(fence, doc) == [fence |-> fence, doc |-> doc]

EmptyText == Text(FALSE, "")

BlankText == Text(FALSE, " ")

\* documents that json.loads accepts
JsonDocs == {"{1}", "{2}"}

Texts ==
    {EmptyText, BlankText, Text(FALSE, "{1}"), Text(FALSE, "{2}"), Text(TRUE, "{1}"),
     Text(FALSE, "{1"), Text(TRUE, "oops")}

\* not text.strip()
IsBlank(text) == ~text.fence /\ text.doc \in {"", " "}

\* clean_json_response(text): the text stripped and without its code fence
clean_json_response(text) == IF text.doc = " " THEN "" ELSE text.doc

\* json.loads(doc) for a document json.loads accepts
json_loads(doc) == [json |-> doc]

HttpError(code) ==
    [kind |-> "HTTPError", code |-> code, sse |-> FALSE, raw |-> "empty", text |-> EmptyText]

UrlError ==
    [kind |-> "URLError", code |-> 0, sse |-> FALSE, raw |-> "empty", text |-> EmptyText]

Timeout ==
    [kind |-> "TimeoutError", code |-> 0, sse |-> FALSE, raw |-> "empty", text |-> EmptyText]

SseBody(text) ==
    [kind |-> "body", code |-> 200, sse |-> TRUE, raw |-> "sse", text |-> text]

PlainBody(raw, text) ==
    [kind |-> "body", code |-> 200, sse |-> FALSE, raw |-> raw, text |-> text]

HttpCodes == {400, 401, 403, 404, 405, 415, 422, 426, 429, 500, 501, 503}

Responses ==
    {HttpError(code) : code \in HttpCodes}
    \cup {UrlError, Timeout}
    \cup {SseBody(text) : text \in Texts}
    \cup {PlainBody(raw, EmptyText) : raw \in {"empty", "not_json", "json_no_choices"}}
    \cup {PlainBody("json", text) : text \in Texts}

\* what a request function does: return a content or raise
Returned(content) == [kind |-> "return", content |-> content, error |-> "none", code |-> 0]

Raised(error, code) == [kind |-> "raise", content |-> EmptyText, error |-> error, code |-> code]

\* request_llm_stream without the parse of a body that has no data frame
request_llm_stream_no_body_fallback(r) ==
    IF r.kind # "body" THEN Raised(r.kind, r.code)
    ELSE IF ~r.sse THEN Raised("StreamUnsupportedError", 0)
    ELSE IF IsBlank(r.text) THEN Raised("RuntimeError", 0)
    ELSE Returned(r.text)

request_llm_stream(r) ==
    IF r.kind # "body" THEN Raised(r.kind, r.code)
    ELSE IF ~r.sse
         THEN IF r.raw = "json" /\ ~IsBlank(r.text) THEN Returned(r.text)
              ELSE Raised("StreamUnsupportedError", 0)
    ELSE IF IsBlank(r.text) THEN Raised("RuntimeError", 0)
    ELSE Returned(r.text)

request_llm_non_stream(r) ==
    IF r.kind # "body" THEN Raised(r.kind, r.code)
    ELSE IF r.raw \in {"empty", "not_json", "sse"} THEN Raised("JSONDecodeError", 0)
    ELSE IF r.raw = "json_no_choices" \/ IsBlank(r.text) THEN Raised("RuntimeError", 0)
    ELSE Returned(r.text)

StreamUnsupportedCodes == {400, 404, 405, 415, 422, 426, 501}

\* a test that takes every error status for a transient one
Retryable_any_status(code) == code >= 400

\* ex.code == 429 or 500 <= ex.code < 600
Retryable(code) == code = 429 \/ (500 <= code /\ code < 600)

\* time.sleep argument that does not grow with the attempt
Backoff_constant(attempt) == LLM_RETRY_BACKOFF_SECONDS

\* LLM_RETRY_BACKOFF_SECONDS * (attempt + 1)
Backoff(attempt) == LLM_RETRY_BACKOFF_SECONDS * (attempt + 1)

Retry(attempt) == [do |-> "retry", content |-> EmptyText, error |-> "none", sleep |-> Backoff(attempt)]

Return(content) == [do |-> "return", content |-> content, error |-> "none", sleep |-> 0]

Raise(error) == [do |-> "raise", content |-> EmptyText, error |-> error, sleep |-> 0]

\* a loop of execute_with_retries that grants one attempt more than
\* range(LLM_MAX_RETRIES + 1)
execute_with_retries_one_more(out, mode, attempt) ==
    IF out.kind = "return" THEN Return(out.content)
    ELSE IF out.error = "StreamUnsupportedError" THEN Raise("StreamUnsupportedError")
    ELSE IF out.error = "HTTPError"
         THEN IF Retryable(out.code) /\ attempt <= LLM_MAX_RETRIES THEN Retry(attempt)
              ELSE IF mode = "stream" /\ out.code \in StreamUnsupportedCodes
                   THEN Raise("StreamUnsupportedError")
              ELSE Raise("RuntimeError")
    ELSE IF out.error \in {"URLError", "TimeoutError"}
         THEN IF attempt <= LLM_MAX_RETRIES THEN Retry(attempt)
              ELSE Raise("RuntimeError")
    ELSE Raise(out.error)

\* one iteration of the loop of execute_with_retries: out is what request_fn
\* did in this attempt
execute_with_retries(out, mode, attempt) ==
    IF out.kind = "return" THEN Return(out.content)
    ELSE IF out.error = "StreamUnsupportedError" THEN Raise("StreamUnsupportedError")
    ELSE IF out.error = "HTTPError"
         THEN IF Retryable(out.code) /\ attempt < LLM_MAX_RETRIES THEN Retry(attempt)
              ELSE IF mode = "stream" /\ out.code \in StreamUnsupportedCodes
                   THEN Raise("StreamUnsupportedError")
              ELSE Raise("RuntimeError")
    ELSE IF out.error \in {"URLError", "TimeoutError"}
         THEN IF attempt < LLM_MAX_RETRIES THEN Retry(attempt)
              ELSE Raise("RuntimeError")
    ELSE Raise(out.error)

\* an except clause of call_llm that catches nothing
Caught_nothing(error) == FALSE

\* except StreamUnsupportedError, around the streaming request of call_llm
Caught(error) == error = "StreamUnsupportedError"

\* messages of build_prompt_messages
PromptMessages ==
    <<[role |-> "system", content |-> Text(FALSE, "system")],
      [role |-> "user", content |-> Text(FALSE, "user")]>>

\* the two messages of a repair request
RepairMessages(content) ==
    <<[role |-> "assistant", content |-> content],
      [role |-> "user", content |-> Text(FALSE, "repair")]>>

\* the messages of a repair request when the turns of the earlier repairs
\* are left in the payload
RepairPayload_keeps_turns(messages, original_msg_count, content) ==
    messages \o RepairMessages(content)

\* del payload["messages"][original_msg_count:], then the two appends
RepairPayload(messages, original_msg_count, content) ==
    SubSeq(messages, 1, original_msg_count) \o RepairMessages(content)

\* a parse loop that always has a repair left
RepairsLeft_always(parse_attempt, budget) == TRUE

\* parse_attempt < LLM_PARSE_MAX_RETRIES
RepairsLeft(parse_attempt, budget) == parse_attempt < budget

NoResponse ==
    [kind |-> "none", code |-> 0, sse |-> FALSE, raw |-> "empty", text |-> EmptyText]

NoOutcome == [status |-> "none", parsed |-> json_loads(""), raw |-> EmptyText, error |-> "none"]

\* the return value with the first content as raw text
ReturnValue_first_content(parsed, raw) ==
    [status |-> "returned", parsed |-> parsed, raw |-> llm_call.first_content,
     error |-> "none"]

\* return parsed, content
ReturnValue(parsed, raw) ==
    [status |-> "returned", parsed |-> parsed, raw |-> raw, error |-> "none"]

Exception(error) ==
    [status |-> "raised", parsed |-> json_loads(""), raw |-> EmptyText, error |-> error]

InitLlm ==
    /\ llm_call \in {[mode |-> "none", stream_enabled |-> s, api_key |-> k,
                      attempt |-> 0, calls |-> 0, sleeps |-> <<>>,
                      response |-> NoResponse, raised |-> "none",
                      stream_fallback |-> FALSE,
                      content |-> EmptyText, first_content |-> EmptyText,
                      parse_attempt |-> 0, parse_max_retries |-> n,
                      messages |-> PromptMessages, requests |-> <<>>] :
                         s \in BOOLEAN, k \in BOOLEAN, n \in ParseRetryBudgets}
    /\ llm_result = NoLlmResult
    /\ active_ids = <<>>
    /\ area_names = <<>>
    /\ area_per_day_counts = <<>>
    /\ schedule_pool = <<>>
    /\ debt_list = <<>>
    /\ credit_list = <<>>
    /\ apply_mode = "append"
    /\ start_date = NoDate
    /\ normalized_ids = <<>>
    /\ restored = <<>>
    /\ new_debt_list = <<>>
    /\ new_credit_list = <<>>
    /\ result = NoOutcome
    /\ runs = 0
    /\ input_data = JOther
    /\ stream_call = <<>>
    /\ span_days = 0
    /\ roster_rows = <<>>
    /\ save_call = <<>>
    /\ files = <<>>
    /\ sanitized_instruction = <<>>
    /\ name_to_id = <<>>
    /\ instruction = <<>>
    /\ pc = "ready"

LlmFrame ==
    UNCHANGED <<schedule_pool, debt_list, credit_list, active_ids, area_names,
                area_per_day_counts, llm_result, apply_mode, start_date,
                normalized_ids, restored, new_debt_list, new_credit_list, runs,
                instruction, name_to_id, sanitized_instruction, files, save_call, input_data,
                stream_call, span_days, roster_rows>>

\* call_llm up to the first request
CallLlm ==
    /\ pc = "ready"
    /\ IF ~llm_call.api_key
       THEN /\ pc' = "raised"
            /\ result' = Exception("ValueError")
            /\ UNCHANGED llm_call
       ELSE /\ pc' = IF llm_call.stream_enabled THEN "stream" ELSE "non_stream"
            /\ llm_call' = [llm_call EXCEPT
                               !.mode = IF llm_call.stream_enabled THEN "stream"
                                        ELSE "non_stream"]
            /\ UNCHANGED result
    /\ LlmFrame

\* llm_call after request_fn was invoked in the current attempt, on the
\* streaming or the non-streaming path, and the endpoint answered r; the first attempt of execute_with_retries starts the
\* count of invocations and the list of waits
Invoked(r, mode) ==
    [llm_call EXCEPT
        !.response = r,
        !.raised = "none",
        !.calls = IF llm_call.attempt = 0 THEN 1 ELSE @ + 1,
        !.sleeps = IF llm_call.attempt = 0 THEN <<>> ELSE @,
        !.mode = mode,
        !.requests = Append(@, [mode |-> mode, messages |-> llm_call.messages])]

\* an attempt of execute_with_retries(request_llm_stream, "stream")
StreamAttempt(r) ==
    /\ pc = "stream"
    /\ LET step == execute_with_retries(request_llm_stream(r), "stream", llm_call.attempt)
       IN  CASE step.do = "retry" ->
                    /\ llm_call' = [Invoked(r, "stream") EXCEPT !.attempt = @ + 1,
                                                      !.sleeps = Append(@, step.sleep)]
                    /\ UNCHANGED <<pc, result>>
             [] step.do = "return" ->
                    /\ llm_call' = [Invoked(r, "stream") EXCEPT !.content = step.content,
                                                      !.first_content = step.content,
                                                      !.attempt = 0]
                    /\ pc' = "parse"
                    /\ UNCHANGED result
             [] step.do = "raise" /\ Caught(step.error) ->
                    /\ llm_call' = [Invoked(r, "stream") EXCEPT !.raised = step.error,
                                                      !.stream_fallback = TRUE,
                                                      !.mode = "non_stream",
                                                      !.attempt = 0]
                    /\ pc' = "non_stream"
                    /\ UNCHANGED result
             [] OTHER ->
                    /\ llm_call' = [Invoked(r, "stream") EXCEPT !.raised = step.error]
                    /\ pc' = "raised"
                    /\ result' = Exception(step.error)
    /\ LlmFrame

\* an attempt of execute_with_retries(request_llm_non_stream, "non_stream")
\* for the first content
NonStreamAttempt(r) ==
    /\ pc = "non_stream"
    /\ LET step == execute_with_retries(request_llm_non_stream(r), "non_stream",
                                        llm_call.attempt)
       IN  CASE step.do = "retry" ->
                    /\ llm_call' = [Invoked(r, "non_stream") EXCEPT !.attempt = @ + 1,
                                                      !.sleeps = Append(@, step.sleep)]
                    /\ UNCHANGED <<pc, result>>
             [] step.do = "return" /\ ~IsBlank(step.content) ->
                    /\ llm_call' = [Invoked(r, "non_stream") EXCEPT !.content = step.content,
                                                      !.first_content = step.content,
                                                      !.attempt = 0]
                    /\ pc' = "parse"
                    /\ UNCHANGED result
             [] step.do = "return" /\ IsBlank(step.content) ->
                    /\ llm_call' = Invoked(r, "non_stream")
                    /\ pc' = "raised"
                    /\ result' = Exception("RuntimeError")
             [] OTHER ->
                    /\ llm_call' = [Invoked(r, "non_stream") EXCEPT !.raised = step.error]
                    /\ pc' = "raised"
                    /\ result' = Exception(step.error)
    /\ LlmFrame

\* one iteration of the parse loop up to the repair request
ParseContent ==
    /\ pc = "parse"
    /\ LET doc == clean_json_response(llm_call.content)
       IN  IF doc \in JsonDocs
           THEN /\ pc' = "returned"
                /\ result' = ReturnValue(json_loads(doc), llm_call.content)
                /\ UNCHANGED llm_call
           ELSE IF RepairsLeft(llm_call.parse_attempt, llm_call.parse_max_retries)
           THEN /\ pc' = "repair"
                /\ llm_call' = [llm_call EXCEPT
                                   !.messages = RepairPayload(@, Len(PromptMessages),
                                                              llm_call.content),
                                   !.attempt = 0]
                /\ UNCHANGED result
           ELSE /\ pc' = "raised"
                /\ result' = Exception("RuntimeError")
                /\ UNCHANGED llm_call
    /\ LlmFrame

\* an attempt of execute_with_retries(request_llm_non_stream, "non_stream")
\* for the repair request
RepairAttempt(r) ==
    /\ pc = "repair"
    /\ LET step == execute_with_retries(request_llm_non_stream(r), "non_stream",
                                        llm_call.attempt)
       IN  CASE step.do = "retry" ->
                    /\ llm_call' = [Invoked(r, "non_stream") EXCEPT !.attempt = @ + 1,
                                                      !.sleeps = Append(@, step.sleep)]
                    /\ UNCHANGED <<pc, result>>
             [] step.do = "return" ->
                    /\ llm_call' = [Invoked(r, "non_stream") EXCEPT !.content = step.content,
                                                      !.parse_attempt = @ + 1,
                                                      !.attempt = 0]
                    /\ pc' = "parse"
                    /\ UNCHANGED result
             [] OTHER ->
                    /\ llm_call' = [Invoked(r, "non_stream") EXCEPT !.raised = step.error]
                    /\ pc' = "raised"
                    /\ result' = Exception(step.error)
    /\ LlmFrame

NextLlm ==
    \/ CallLlm
    \/ \E r \in Responses : StreamAttempt(r)
    \/ \E r \in Responses : NonStreamAttempt(r)
    \/ ParseContent
    \/ \E r \in Responses : RepairAttempt(r)

SpecLlm == InitLlm /\ [][NextLlm]_vars

\* the step is an attempt of execute_with_retries: request_fn was invoked
IsAttempt == pc \in {"stream", "non_stream", "repair"} /\ llm_call'.requests # llm_call.requests

\* the attempt failed with HTTP 429, HTTP 5xx, a timeout or a connection error
FailedRetryable(r) ==
    \/ r.kind \in {"URLError", "TimeoutError"}
    \/ r.kind = "HTTPError" /\ (r.code = 429 \/ r.code \in 500..599)

\* C16: request_fn is invoked once per attempt and at most
\* LLM_MAX_RETRIES + 1 times; an attempt that fails with HTTP 429, HTTP 5xx,
\* a timeout or a connection error is followed by another attempt of the
\* same request while retries are left, after a wait of k *
\* LLM_RETRY_BACKOFF_SECONDS before the k-th retry, and by a raised error and
\* no result when the retries are used up.
C16_RetriesBoundedWithLinearBackoff ==
    [][IsAttempt =>
           LET k == llm_call.attempt + 1
           IN  /\ llm_call'.calls = k
               /\ k <= LLM_MAX_RETRIES + 1
               /\ Len(llm_call'.requests) = Len(llm_call.requests) + 1
               /\ (FailedRetryable(llm_call'.response) /\ k <= LLM_MAX_RETRIES) =>
                      /\ pc' = pc
                      /\ llm_call'.attempt = k
                      /\ llm_call'.sleeps = [j \in 1..k |-> j * LLM_RETRY_BACKOFF_SECONDS]
               /\ (FailedRetryable(llm_call'.response) /\ k = LLM_MAX_RETRIES + 1) =>
                      /\ llm_call'.raised # "none"
                      /\ llm_call'.content = llm_call.content
                      /\ pc' \in {"raised", "non_stream"}]_vars

\* three timeouts in a row: three invocations, waits of 2 s and 4 s, an error
C16_Witness ==
    /\ pc = "raised"
    /\ llm_call.calls = 3
    /\ llm_call.sleeps = <<2, 4>>
    /\ llm_call.response = Timeout
    /\ result.error = "RuntimeError"

\* C17: a streaming attempt answered with HTTP 400, 404, 405, 415, 422, 426
\* or 501 is not retried: StreamUnsupportedError is raised after that attempt
\* and call_llm goes on with the non-streaming path.
C17_UnsupportedStatusNotRetried ==
    [][(pc = "stream" /\ IsAttempt /\ llm_call'.response.kind = "HTTPError"
           /\ llm_call'.response.code \in {400, 404, 405, 415, 422, 426, 501}) =>
               /\ llm_call'.raised = "StreamUnsupportedError"
               /\ pc' = "non_stream"]_vars

\* C18: when the body of a streaming response has no data frame and is a
\* JSON chat response whose first choice has text that is not blank,
\* request_llm_stream returns that text; in the case of no data frame
\* StreamUnsupportedError is raised only for a body that is empty, is not
\* JSON or gives no text or blank text.
C18_ZeroFrameJsonBodyIsParsed ==
    [][(pc = "stream" /\ IsAttempt /\ llm_call'.response.kind = "body"
           /\ ~llm_call'.response.sse) =>
               LET r == llm_call'.response
                   has_text == r.raw = "json" /\ r.text \notin {EmptyText, BlankText}
               IN  /\ has_text =>
                          /\ llm_call'.content = r.text
                          /\ llm_call'.raised = "none"
                          /\ pc' = "parse"
                   /\ llm_call'.raised = "StreamUnsupportedError" => ~has_text]_vars

\* the first streaming attempt got a JSON body without data frames and its
\* text is the content
C18_Witness ==
    /\ pc = "parse"
    /\ Len(llm_call.requests) = 1
    /\ llm_call.requests[1].mode = "stream"
    /\ llm_call.response = PlainBody("json", Text(TRUE, "{1}"))
    /\ llm_call.content = Text(TRUE, "{1}")

\* the request the step issues, when it issues one
Issued == llm_call'.requests[Len(llm_call'.requests)]

\* C19: when the streaming path signals StreamUnsupportedError, call_llm
\* raises nothing and its next request is the same request on the
\* non-streaming path, whose content or error is the outcome; a
\* non-streaming request for the prompt is issued only when streaming is
\* disabled or the streaming path signalled unsupported;
\* StreamUnsupportedError is never the error call_llm raises.
C19_FallbackToNonStream ==
    [][/\ (pc = "stream" /\ llm_call'.raised = "StreamUnsupportedError") =>
              /\ pc' = "non_stream"
              /\ result' = result
              /\ llm_call'.messages = Issued.messages
       /\ (pc = "non_stream" /\ IsAttempt) =>
              /\ Issued = [mode |-> "non_stream", messages |-> PromptMessages]
              /\ ~llm_call.stream_enabled \/
                     /\ llm_call.requests # <<>>
                     /\ llm_call.requests[1] = [mode |-> "stream", messages |-> PromptMessages]
                     /\ llm_call.stream_fallback
              /\ LET r == llm_call'.response
                 IN  (r.kind = "body" /\ r.raw = "json" /\ r.text \notin {EmptyText, BlankText}) =>
                         pc' = "parse" /\ llm_call'.content = r.text
              /\ pc' = "raised" => result'.status = "raised"
       /\ (IsAttempt /\ Issued.mode = "non_stream" /\ Issued.messages = PromptMessages) =>
              ~llm_call.stream_enabled \/ llm_call.stream_fallback
       /\ result'.error # "StreamUnsupportedError"]_vars

\* streaming was answered with HTTP 404 and the content came from the
\* non-streaming request that followed
C19_Witness ==
    /\ pc = "parse"
    /\ llm_call.stream_enabled
    /\ llm_call.stream_fallback
    /\ Len(llm_call.requests) = 2
    /\ llm_call.requests[1] = [mode |-> "stream", messages |-> PromptMessages]
    /\ llm_call.requests[2] = [mode |-> "non_stream", messages |-> PromptMessages]
    /\ llm_call.content = Text(FALSE, "{2}")

\* C20: when the first output is not parseable and the output of the repair
\* request is, call_llm returns the parsed value and the raw text of the
\* output of the repair request.
C20_RepairOutputIsReturned ==
    (pc = "returned" /\ llm_call.parse_attempt = 1) =>
        /\ llm_call.response.kind = "body"
        /\ llm_call.requests[Len(llm_call.requests)] =
               [mode |-> "non_stream",
                messages |-> PromptMessages \o RepairMessages(llm_call.first_content)]
        /\ result.raw = llm_call.response.text
        /\ result.parsed = [json |-> llm_call.response.text.doc]
        /\ result.raw # llm_call.first_content

\* a malformed first output, a repair output in a code fence that parses
C20_Witness ==
    /\ pc = "returned"
    /\ llm_call.parse_attempt = 1
    /\ llm_call.first_content = Text(FALSE, "{1")
    /\ result.raw = Text(TRUE, "{1}")
    /\ result.parsed = [json |-> "{1}"]

\* C21: every repair request carries the prompt messages followed by two
\* turns, the most recent failed output as assistant and the parser error as
\* user: original count + 2 messages, however many repairs were done before.
C21_RepairMessagesDoNotGrow ==
    [][(pc = "repair" /\ IsAttempt) =>
           /\ Issued.messages = PromptMessages \o RepairMessages(llm_call.content)
           /\ Len(Issued.messages) = Len(PromptMessages) + 2
           /\ Issued.messages[Len(PromptMessages) + 1].role = "assistant"
           /\ Issued.messages[Len(PromptMessages) + 2].role = "user"]_vars

\* the second repair request was sent with four messages, the third of them
\* the output of the first repair and not the first output
C21_Witness ==
    /\ llm_call.mode # "none"
    /\ llm_call.parse_attempt = 2
    /\ llm_call.first_content = Text(FALSE, "{1")
    /\ llm_call.requests # <<>>
    /\ LET last == llm_call.requests[Len(llm_call.requests)]
       IN  /\ Len(last.messages) = Len(PromptMessages) + 2
           /\ last.messages[3].content = Text(TRUE, "oops")

\* the repair requests among the requests of the call
RepairRequests == SelectSeq(llm_call.requests, LAMBDA q : q.messages # PromptMessages)

\* C22: call_llm starts at most as many repair conversations as
\* LLM_PARSE_MAX_RETRIES allows, every request of a repair conversation is a
\* non-streaming request, and an output that is not parseable after the last
\* repair ends the call with an error: no value is returned and no further
\* request follows.
C22_RepairLoopBounded ==
    [][/\ llm_call'.mode # "none" =>
              /\ llm_call'.parse_attempt <= llm_call.parse_max_retries
              /\ Len(RepairRequests) <= llm_call.parse_max_retries * (LLM_MAX_RETRIES + 1)
              /\ \A i \in 1..Len(RepairRequests) : RepairRequests[i].mode = "non_stream"
       /\ (pc = "parse" /\ clean_json_response(llm_call.content) \notin JsonDocs
              /\ llm_call.parse_attempt = llm_call.parse_max_retries) =>
                 /\ pc' = "raised"
                 /\ result'.status = "raised"
                 /\ result'.error = "RuntimeError"
                 /\ llm_call'.requests = llm_call.requests
       /\ pc = "raised" => pc' = "raised"]_vars

\* LLM_PARSE_MAX_RETRIES = 1: the first output and the output of the one
\* repair are malformed and the call ends with the error
C22_Witness ==
    /\ pc = "raised"
    /\ llm_call.mode # "none"
    /\ llm_call.parse_max_retries = LLM_PARSE_MAX_RETRIES
    /\ llm_call.parse_attempt = LLM_PARSE_MAX_RETRIES
    /\ llm_call.first_content = Text(FALSE, "{1")
    /\ llm_call.content = Text(TRUE, "oops")
    /\ llm_call.raised = "none"
    /\ result.error = "RuntimeError"

(***************************************************************************)
(* Identity anonymizer.  A text is a sequence of one-character strings;    *)
(* "NUL" stands for the character \x00.                                    *)
(***************************************************************************)
MaxText == 3        \* characters of an instruction
MaxNames == 2       \* rows of a roster

\* str(n) for n >= 0
RECURSIVE StrOfInt(_)
StrOfInt(n) ==
    IF n < 10 THEN <<Digits[n + 1]>>
    ELSE StrOfInt(n \div 10) \o <<Digits[(n % 10) + 1]>>

\* f"\x00PLACEHOLDER_{idx}\x00"
Placeholder(idx) ==
    <<"NUL", "P", "L", "A", "C", "E", "H", "O", "L", "D", "E", "R", "_">>
    \o StrOfInt(idx) \o <<"NUL">>

\* re.sub(re.escape(old), new, s) and s.replace(old, new) for a non-empty
\* old: the occurrences of old are found from the left, without overlap, in
\* s as it was before the call
RECURSIVE Substitute(_, _, _)
Substitute(s, old, new) ==
    LET starts == {i \in 1..(Len(s) - Len(old) + 1) :
                       SubSeq(s, i, i + Len(old) - 1) = old}
    IN  IF starts = {} THEN s
        ELSE LET first == CHOOSE i \in starts : \A j \in starts : i <= j
             IN  SubSeq(s, 1, first - 1) \o new
                 \o Substitute(SubSeq(s, first + Len(old), Len(s)), old, new)

\* sorted(names, key=len, reverse=True): names of equal length keep their order
RECURSIVE SortedByLenDesc(_)
SortedByLenDesc(names) ==
    IF names = <<>> THEN <<>>
    ELSE LET first == CHOOSE i \in 1..Len(names) :
                          /\ \A j \in 1..Len(names) : Len(names[j]) <= Len(names[i])
                          /\ \A j \in 1..(i - 1) : Len(names[j]) < Len(names[i])
         IN  <<names[first]>>
             \o SortedByLenDesc(SubSeq(names, 1, first - 1)
                                \o SubSeq(names, first + 1, Len(names)))

\* the first loop of anonymize_instruction from its idx-th iteration on
RECURSIVE PlaceholderPass(_, _, _)
PlaceholderPass(text, names, idx) ==
    IF idx >= Len(names) THEN text
    ELSE PlaceholderPass(Substitute(text, names[idx + 1], Placeholder(idx)), names, idx + 1)

\* the second loop of anonymize_instruction from its idx-th iteration on
RECURSIVE IdPass(_, _, _, _)
IdPass(text, names, ids, idx) ==
    IF idx >= Len(names) THEN text
    ELSE IdPass(Substitute(text, Placeholder(idx), StrOfInt(DictGet(ids, names[idx + 1], 0))),
                names, ids, idx + 1)

anonymize_instruction(text, ids) ==
    IF text = <<>> THEN text
    ELSE LET names == SortedByLenDesc([i \in 1..Len(ids) |-> ids[i][1]])
         IN  IdPass(PlaceholderPass(text, names, 0), names, ids, 0)

\* rows of a roster: unique non-empty names, positive ids
AnonRows ==
    {<<<<"W", "S">>, 13>>, <<<<"W">>, 1>>, <<<<"E">>, 3>>, <<<<"S", "h">>, 2>>}

AnonMaps ==
    {d \in SeqsUpTo(AnonRows, MaxNames) :
        \A i, j \in 1..Len(d) : i # j => d[i][1] # d[j][1]}

AnonTexts == SeqsUpTo({"W", "S", "E", "h"}, MaxText)

InitAnon ==
    /\ instruction \in AnonTexts
    /\ name_to_id \in AnonMaps
    /\ sanitized_instruction = <<>>
    /\ llm_call = NoCall
    /\ llm_result = NoLlmResult
    /\ active_ids = <<>>
    /\ area_names = <<>>
    /\ area_per_day_counts = <<>>
    /\ schedule_pool = <<>>
    /\ debt_list = <<>>
    /\ credit_list = <<>>
    /\ apply_mode = "append"
    /\ start_date = NoDate
    /\ normalized_ids = <<>>
    /\ restored = <<>>
    /\ new_debt_list = <<>>
    /\ new_credit_list = <<>>
    /\ result = "none"
    /\ runs = 0
    /\ input_data = JOther
    /\ stream_call = <<>>
    /\ span_days = 0
    /\ roster_rows = <<>>
    /\ save_call = <<>>
    /\ files = <<>>
    /\ pc = "ready"

\* sanitized_instruction = anonymize_instruction(instruction, name_to_id)
AnonymizeInstruction ==
    /\ pc = "ready"
    /\ sanitized_instruction' = anonymize_instruction(instruction, name_to_id)
    /\ pc' = "anonymized"
    /\ UNCHANGED <<schedule_pool, debt_list, credit_list, active_ids, area_names,
                   area_per_day_counts, llm_result, apply_mode, start_date,
                   normalized_ids, restored, new_debt_list, new_credit_list,
                   result, runs, llm_call, instruction, name_to_id, files,
                   save_call, input_data,
                stream_call, span_days, roster_rows>>

NextAnon == AnonymizeInstruction

SpecAnon == InitAnon /\ [][NextAnon]_vars

\* a character of the text, original or written by a substitution
Original(ch) == [ch |-> ch, written |-> FALSE]

Written(ch) == [ch |-> ch, written |-> TRUE]

\* every occurrence of name in original characters, found from the left,
\* becomes the digits of id, written by this substitution
RECURSIVE SubstituteOnce(_, _, _)
SubstituteOnce(marked, name, id) ==
    IF Len(marked) < Len(name) THEN marked
    ELSE IF \A i \in 1..Len(name) : marked[i] = Original(name[i])
         THEN [i \in 1..Len(StrOfInt(id)) |-> Written(StrOfInt(id)[i])]
              \o SubstituteOnce(SubSeq(marked, Len(name) + 1, Len(marked)), name, id)
    ELSE <<Head(marked)>> \o SubstituteOnce(Tail(marked), name, id)

RECURSIVE SubstituteAll(_, _, _, _)
SubstituteAll(marked, names, ids, idx) ==
    IF idx > Len(names) THEN marked
    ELSE SubstituteAll(SubstituteOnce(marked, names[idx], DictGet(ids, names[idx], 0)),
                       names, ids, idx + 1)

\* the text with every matched name, longer names first, replaced once by
\* its id
EachNameOnce(text, ids) ==
    LET names == SortedByLenDesc([i \in 1..Len(ids) |-> ids[i][1]])
        marked == SubstituteAll([i \in 1..Len(text) |-> Original(text[i])], names, ids, 1)
    IN  [i \in 1..Len(marked) |-> marked[i].ch]

\* C23: the output of anonymize_instruction is the text with each occurrence
\* of a known name replaced once by the id of the name, longer names before
\* shorter ones, and no character written by a replacement is matched as
\* part of a name.
C23_EachNameSubstitutedOnce ==
    pc = "anonymized" => sanitized_instruction = EachNameOnce(instruction, name_to_id)

(***************************************************************************)
(* save_json_atomic.  The content of a file is the sequence of the chunks  *)
(* written to it; a path without a file has the content Absent.            *)
(***************************************************************************)
Absent == <<"ENOENT">>

\* for attempt in range(3)
ReplaceAttempts == 3

Documents == {<<"{", "}">>, <<"{", "a", "}">>, <<"{", "b", "b", "}">>}

\* path.with_suffix(path.suffix + ".tmp") when the suffix added is empty
tmp_path_is_path(path) == path

\* path.with_suffix(path.suffix + ".tmp")
tmp_path(path) == IF path = "state.json" THEN "state.json.tmp" ELSE path

Paths == {"state.json", tmp_path("state.json")}

InitSave ==
    /\ \E previous \in Documents \cup {Absent}, stale \in {Absent, <<"{">>} :
           files = [p \in Paths |-> IF p = "state.json" THEN previous ELSE stale]
    /\ \E data \in Documents :
           save_call = [path |-> "state.json", data |-> data,
                        previous |-> files["state.json"],
                        attempt |-> 0, replaces |-> 0, sleeps |-> <<>>]
    /\ instruction = <<>>
    /\ name_to_id = <<>>
    /\ sanitized_instruction = <<>>
    /\ llm_call = NoCall
    /\ llm_result = NoLlmResult
    /\ active_ids = <<>>
    /\ area_names = <<>>
    /\ area_per_day_counts = <<>>
    /\ schedule_pool = <<>>
    /\ debt_list = <<>>
    /\ credit_list = <<>>
    /\ apply_mode = "append"
    /\ start_date = NoDate
    /\ normalized_ids = <<>>
    /\ restored = <<>>
    /\ new_debt_list = <<>>
    /\ new_credit_list = <<>>
    /\ result = "none"
    /\ runs = 0
    /\ input_data = JOther
    /\ stream_call = <<>>
    /\ span_days = 0
    /\ roster_rows = <<>>
    /\ pc = "ready"

SaveFrame ==
    UNCHANGED <<schedule_pool, debt_list, credit_list, active_ids, area_names,
                area_per_day_counts, llm_result, apply_mode, start_date,
                normalized_ids, restored, new_debt_list, new_credit_list,
                result, runs, llm_call, instruction, name_to_id,
                sanitized_instruction, input_data,
                stream_call, span_days, roster_rows>>

\* open(tmp_path, "w"): the file is created or truncated
OpenTmp ==
    /\ pc = "ready"
    /\ files' = [files EXCEPT ![tmp_path(save_call.path)] = <<>>]
    /\ pc' = "dump"
    /\ UNCHANGED save_call
    /\ SaveFrame

\* json.dump writes the next chunk of the document
DumpChunk ==
    /\ pc = "dump"
    /\ LET tmp == tmp_path(save_call.path)
           written == Len(files[tmp])
       IN  /\ files' = [files EXCEPT ![tmp] = Append(@, save_call.data[written + 1])]
           /\ pc' = IF written + 1 = Len(save_call.data) THEN "sync" ELSE "dump"
    /\ UNCHANGED save_call
    /\ SaveFrame

\* f.flush(), os.fsync(f.fileno()) and the end of the with block
SyncAndClose ==
    /\ pc = "sync"
    /\ pc' = "replace"
    /\ UNCHANGED <<files, save_call>>
    /\ SaveFrame

\* os.replace(src, dst)
os_replace(fs, src, dst) ==
    IF src = dst THEN fs ELSE [fs EXCEPT ![dst] = fs[src], ![src] = Absent]

\* one iteration of the loop around os.replace; outcome is what os.replace did
Replace(outcome) ==
    /\ pc = "replace"
    /\ save_call.attempt < ReplaceAttempts
    /\ CASE outcome = "ok" ->
                /\ files' = os_replace(files, tmp_path(save_call.path), save_call.path)
                /\ save_call' = [save_call EXCEPT !.replaces = @ + 1]
                /\ pc' = "returned"
         [] outcome = "PermissionError" /\ save_call.attempt < ReplaceAttempts - 1 ->
                /\ save_call' = [save_call EXCEPT !.replaces = @ + 1,
                                                  !.sleeps = Append(@, save_call.attempt + 1),
                                                  !.attempt = @ + 1]
                /\ UNCHANGED <<files, pc>>
         [] OTHER ->
                /\ save_call' = [save_call EXCEPT !.replaces = @ + 1]
                /\ pc' = "raised"
                /\ UNCHANGED files
    /\ SaveFrame

\* the process is terminated between two steps of save_json_atomic
Terminate ==
    /\ pc \in {"ready", "dump", "sync", "replace"}
    /\ pc' = "terminated"
    /\ UNCHANGED <<files, save_call>>
    /\ SaveFrame

NextSave ==
    \/ OpenTmp
    \/ DumpChunk
    \/ SyncAndClose
    \/ \E outcome \in {"ok", "PermissionError", "OSError"} : Replace(outcome)
    \/ Terminate

SpecSave == InitSave /\ [][NextSave]_vars

\* C24: whatever step save_json_atomic has reached, and also after a
\* termination between two steps or after every rename attempt failed, the
\* target path holds the whole previous document or the whole new one;
\* os.replace is attempted at most three times, and after a return the
\* target holds the new document and there is no temp file.
C24_TargetNeverPartial ==
    /\ files[save_call.path] \in {save_call.previous, save_call.data}
    /\ save_call.replaces <= 3
    /\ pc \in {"ready", "dump", "sync", "raised"} =>
           files[save_call.path] = save_call.previous
    /\ pc = "returned" =>
           /\ files[save_call.path] = save_call.data
           /\ files[tmp_path(save_call.path)] = Absent

\* three PermissionErrors: the call raised, the previous document is still
\* at the target and the new one is in the temp file
C24_Witness ==
    /\ pc = "raised"
    /\ save_call.replaces = 3
    /\ save_call.sleeps = <<1, 2>>
    /\ save_call.previous = <<"{", "a", "}">>
    /\ save_call.data = <<"{", "b", "b", "}">>
    /\ files["state.json"] = save_call.previous
    /\ files[tmp_path("state.json")] = save_call.data

\* the names in the assignments of one entry
NamesIn(entry) ==
    UNION {Range(entry.area_assignments[k][2]) : k \in 1..Len(entry.area_assignments)}

\* C27: after a successful run every id of the scheduled set of the run's
\* normalized output is, under its name, in the assignments of an entry of
\* the persisted pool.
C27_ScheduledIdsArePersisted ==
    (pc = "ran" /\ result = "success") =>
        \A pid \in AllScheduled(normalized_ids) :
            \E i \in 1..Len(schedule_pool) : id_to_name[pid] \in NamesIn(schedule_pool[i])

C30_ClientErrorNotRetried ==
    [][(IsAttempt /\ llm_call'.response.kind = "HTTPError"
           /\ llm_call'.response.code \in (400..499) \ {429}) =>
               /\ pc' # pc
               /\ Len(llm_call'.sleeps) = llm_call.attempt
               /\ (pc \in {"non_stream", "repair"}
                      \/ llm_call'.response.code \notin {400, 404, 405, 415, 422, 426}) =>
                      /\ pc' = "raised"
                      /\ result'.status = "raised"
                      /\ result'.error = "RuntimeError"
                      /\ llm_call'.stream_fallback = llm_call.stream_fallback
                      /\ llm_call.attempt = 0 => llm_call'.calls = 1]_vars

\* streaming was answered with HTTP 403: one request, no fallback, an error
C30_Witness ==
    /\ pc = "raised"
    /\ llm_call.mode = "stream"
    /\ llm_call.response = HttpError(403)
    /\ llm_call.requests = <<[mode |-> "stream", messages |-> PromptMessages]>>
    /\ ~llm_call.stream_fallback
    /\ result.error = "RuntimeError"

(***************************************************************************)
(* merge_input_config.  A run request is a JSON value; the value of a key  *)
(* is a JSON value, the string s being JStr(s) (s is kept as the one key   *)
(* of items).                                                              *)
(***************************************************************************)
JStr(s) == [kind |-> "str", items |-> <<<<s, JNone>>>>]

\* merged.update(config)
RECURSIVE DictUpdate(_, _)
DictUpdate(d, other) ==
    IF other = <<>> THEN d
    ELSE DictUpdate(DictSet(d, Head(other)[1], Head(other)[2]), Tail(other))

\* the merge without the last step: an instruction of config wins
merge_input_config_config_wins(data) ==
    IF data.kind # "dict" THEN JDict(<<>>)
    ELSE IF DictHas(data.items, "config") /\ DictGet(data.items, "config", JNone).kind = "dict"
    THEN JDict(DictUpdate(data.items, DictGet(data.items, "config", JNone).items))
    ELSE data

merge_input_config(data) ==
    IF data.kind # "dict" THEN JDict(<<>>)
    ELSE IF DictHas(data.items, "config") /\ DictGet(data.items, "config", JNone).kind = "dict"
    THEN LET merged == DictUpdate(data.items, DictGet(data.items, "config", JNone).items)
         IN  IF DictHas(data.items, "instruction")
             THEN JDict(DictSet(merged, "instruction",
                                DictGet(data.items, "instruction", JNone)))
             ELSE JDict(merged)
    ELSE data

\* the dicts with the keys of a set, in the order of keys, every value
\* JStr(origin)
RECURSIVE DictsOver(_, _)
DictsOver(keys, origin) ==
    IF keys = <<>> THEN {<<>>}
    ELSE LET rest == DictsOver(Tail(keys), origin)
         IN  rest \cup {<<<<Head(keys), JStr(origin)>>>> \o d : d \in rest}

ConfigValues ==
    {JDict(d) : d \in DictsOver(<<"instruction", "model", "per_day", "apply_mode">>, "nested")}
    \cup {JStr("not an object")}

InputDocuments ==
    {JDict(d) : d \in DictsOver(<<"instruction", "model">>, "top")}
    \cup {JDict(d \o <<<<"config", c>>>>) :
              d \in DictsOver(<<"instruction", "model">>, "top"), c \in ConfigValues}
    \cup {JOther}

InitInput ==
    /\ input_data \in InputDocuments
    /\ stream_call = <<>>
    /\ span_days = 0
    /\ roster_rows = <<>>
    /\ result = JNone
    /\ files = <<>>
    /\ save_call = <<>>
    /\ instruction = <<>>
    /\ name_to_id = <<>>
    /\ sanitized_instruction = <<>>
    /\ llm_call = NoCall
    /\ llm_result = NoLlmResult
    /\ active_ids = <<>>
    /\ area_names = <<>>
    /\ area_per_day_counts = <<>>
    /\ schedule_pool = <<>>
    /\ debt_list = <<>>
    /\ credit_list = <<>>
    /\ apply_mode = "append"
    /\ start_date = NoDate
    /\ normalized_ids = <<>>
    /\ restored = <<>>
    /\ new_debt_list = <<>>
    /\ new_credit_list = <<>>
    /\ runs = 0
    /\ pc = "ready"

\* merge_input_config(input_data)
MergeInputConfig ==
    /\ pc = "ready"
    /\ result' = merge_input_config(input_data)
    /\ pc' = "merged"
    /\ UNCHANGED <<schedule_pool, debt_list, credit_list, active_ids, area_names,
                   area_per_day_counts, llm_result, apply_mode, start_date,
                   normalized_ids, restored, new_debt_list, new_credit_list,
                   runs, llm_call, instruction, name_to_id, sanitized_instruction,
                   files, save_call, input_data,
                stream_call, span_days, roster_rows>>

NextInput == MergeInputConfig

SpecInput == InitInput /\ [][NextInput]_vars

\* the request is a JSON object with a key config whose value is a JSON object
HasNestedConfig(data) ==
    /\ data.kind = "dict"
    /\ \E i \in 1..Len(data.items) :
           data.items[i][1] = "config" /\ data.items[i][2].kind = "dict"

\* d[k] for a key k of d
ValueOf(d, k) == d[CHOOSE i \in 1..Len(d) : d[i][1] = k][2]

\* C26: for a request with a nested config object, every key of config is
\* a key of the merged request, with the value it has in config unless it is
\* instruction and the request has a top-level instruction; the top-level
\* instruction is the merged instruction; the other top-level keys keep
\* their values; a request object without a nested config object is
\* returned as it is.
C26_ConfigMergedInstructionKept ==
    (pc = "merged" /\ input_data.kind = "dict") =>
        LET top == input_data.items
        IN  IF HasNestedConfig(input_data)
            THEN LET config == ValueOf(top, "config").items
                 IN  /\ result.kind = "dict"
                     /\ DictKeys(result.items) = DictKeys(top) \cup DictKeys(config)
                     /\ \A k \in DictKeys(config) :
                            (k # "instruction" \/ "instruction" \notin DictKeys(top)) =>
                                ValueOf(result.items, k) = ValueOf(config, k)
                     /\ "instruction" \in DictKeys(top) =>
                            ValueOf(result.items, "instruction") = ValueOf(top, "instruction")
                     /\ \A k \in DictKeys(top) \ DictKeys(config) :
                            ValueOf(result.items, k) = ValueOf(top, k)
            ELSE result = input_data

\* instruction and model at the top level and in config: the merged
\* instruction is the top-level one, the merged model the one of config
C26_Witness ==
    /\ pc = "merged"
    /\ HasNestedConfig(input_data)
    /\ {"instruction", "model"} \subseteq DictKeys(input_data.items)
    /\ {"instruction", "model"} \subseteq DictKeys(ValueOf(input_data.items, "config").items)
    /\ ValueOf(input_data.items, "instruction") = JStr("top")
    /\ ValueOf(input_data.items, "model") = JStr("top")
    /\ ValueOf(ValueOf(input_data.items, "config").items, "instruction") = JStr("nested")
    /\ ValueOf(result.items, "instruction") = JStr("top")
    /\ ValueOf(result.items, "model") = JStr("nested")

(***************************************************************************)
(* main: the try block and its handler.  The state document is             *)
(* schedule_pool, debt_list and credit_list; files tells whether this run  *)
(* wrote it and holds the result document.  result is the value call_llm   *)
(* returned or the exception that was raised, its message in error.        *)
(***************************************************************************)
\* write_result: the payload, written by the current run or by an earlier one
ResultDocument(status, message, written_by) ==
    [status |-> status, message |-> message, run |-> written_by]

PreviousResults ==
    {ResultDocument("none", "", "no run"),
     ResultDocument("success", "", "earlier run"),
     ResultDocument("error", "earlier error", "earlier run")}

\* what the steps of main before build_prompt_messages raise
LoadErrors ==
    {"config", "roster.csv not found", "No active people in roster.csv.", "state",
     "input", "Missing config field: base_url/model.", "Missing API key"}

MainEntry(date_str) ==
    RawEntry(date_str, JDict(<<<<"A", JList(<<RawInt(1)>>)>>>>), JNone, JNone, "")

\* parsed model outputs: a schedule that passes, no schedule, a schedule
\* that is not a list, entries without date, with an invalid date, out of
\* order, and an entry that is not an object
MainSchedules ==
    {JList(<<MainEntry(Str_02_09), MainEntry(Str_02_10)>>),
     JList(<<>>),
     JOther,
     JList(<<MainEntry(<<>>)>>),
     JList(<<MainEntry(Str_02_30)>>),
     JList(<<MainEntry(Str_02_10), MainEntry(Str_02_09)>>),
     JList(<<NotAnObject>>)}

MainOutputs == {LlmResult(sch, JNone, JNone) : sch \in MainSchedules}

InitMain ==
    /\ schedule_pool = <<>>
    /\ debt_list = <<>>
    /\ credit_list = <<>>
    /\ active_ids = RunActiveIds
    /\ area_names = RunAreaNames
    /\ area_per_day_counts = RunAreaCounts
    /\ llm_result = NoLlmResult
    /\ apply_mode = "append"
    /\ start_date = Today
    /\ normalized_ids = <<>>
    /\ restored = <<>>
    /\ new_debt_list = <<>>
    /\ new_credit_list = <<>>
    /\ result = NoOutcome
    /\ runs = 0
    /\ input_data = JOther
    /\ stream_call = <<>>
    /\ span_days = 0
    /\ roster_rows = <<>>
    /\ instruction = <<>>
    /\ name_to_id = <<>>
    /\ sanitized_instruction = <<>>
    /\ save_call = [path |-> "none", raised |-> FALSE]
    /\ \E previous \in PreviousResults :
           files = [state_json |-> "as read", result_json |-> previous]
    /\ \E s \in BOOLEAN :
           llm_call = [mode |-> "none", stream_enabled |-> s, api_key |-> TRUE,
                       attempt |-> 0, calls |-> 0, sleeps |-> <<>>,
                       response |-> NoResponse, raised |-> "none",
                       stream_fallback |-> FALSE,
                       content |-> EmptyText, first_content |-> EmptyText,
                       parse_attempt |-> 0, parse_max_retries |-> LLM_PARSE_MAX_RETRIES,
                       messages |-> PromptMessages, requests |-> <<>>]
    /\ pc = "start"

MainFrame ==
    UNCHANGED <<active_ids, area_names, area_per_day_counts, apply_mode, start_date,
                runs, instruction, name_to_id, sanitized_instruction, input_data,
                stream_call, span_days, roster_rows, llm_call>>

\* sys.exit(code) without the code
sys_exit_zero(code) == "exit_0"

\* sys.exit(code), and exit status 0 at the end of main
sys_exit(code) == IF code = 0 THEN "exit_0" ELSE "exit_1"

\* main from load_config to build_prompt_messages
LoadInputs(outcome) ==
    /\ pc = "start"
    /\ IF outcome = "ok"
       THEN pc' = "ready" /\ UNCHANGED result
       ELSE pc' = "except" /\ result' = Exception(outcome)
    /\ UNCHANGED <<schedule_pool, debt_list, credit_list, llm_result, normalized_ids,
                   restored, new_debt_list, new_credit_list, files, save_call>>
    /\ MainFrame

\* main from the return of call_llm to the merge of the pool; llm is the
\* parsed output
UseOutput(llm) ==
    /\ pc = "returned"
    /\ llm_result' = llm
    /\ LET normalized == normalize_multi_area_schedule_ids(
                             llm.schedule.items, active_ids, area_names,
                             area_per_day_counts)
           new_entries == restore_schedule(normalized, area_names, <<>>)
       IN  IF ~validate_llm_schedule_entries(llm.schedule)
           THEN /\ pc' = "except"
                /\ result' = Exception("LLM returned invalid schedule")
                /\ UNCHANGED <<normalized_ids, restored, new_debt_list, new_credit_list>>
           ELSE /\ normalized_ids' = normalized
                /\ restored' = new_entries
                /\ new_debt_list' =
                       extract_ids_from_value(llm.new_debt_ids, Range(active_ids), 9999)
                /\ new_credit_list' =
                       extract_ids_from_value(llm.new_credit_ids, Range(active_ids), 9999)
                /\ IF new_entries = <<>>
                   THEN /\ pc' = "except"
                        /\ result' = Exception("LLM returned no valid schedule entries.")
                   ELSE pc' = "save_state" /\ UNCHANGED result
    /\ UNCHANGED <<schedule_pool, debt_list, credit_list, files, save_call>>
    /\ MainFrame

\* save_json_atomic(ctx.paths["state"], state_data); outcome is what it did
SaveState(outcome) ==
    /\ pc = "save_state"
    /\ save_call' = [path |-> "state.json", raised |-> outcome # "ok"]
    /\ IF outcome = "ok"
       THEN /\ schedule_pool' = merge_schedule_pool(schedule_pool, restored, apply_mode,
                                                    start_date)
            /\ debt_list' = recover_missing_debts(debt_list, new_debt_list, normalized_ids)
            /\ credit_list' = remaining_credits(credit_list, new_credit_list,
                                                normalized_ids)
            /\ files' = [files EXCEPT !.state_json = "written"]
            /\ pc' = "write_result"
            /\ UNCHANGED result
       ELSE /\ pc' = "except"
            /\ result' = Exception(outcome)
            /\ UNCHANGED <<schedule_pool, debt_list, credit_list, files>>
    /\ UNCHANGED <<llm_result, normalized_ids, restored, new_debt_list, new_credit_list>>
    /\ MainFrame

\* write_result(ctx.paths["result"], "success", ...); outcome is what its
\* save_json_atomic did
WriteSuccess(outcome) ==
    /\ pc = "write_result"
    /\ save_call' = [path |-> "result.json", raised |-> outcome # "ok"]
    /\ IF outcome = "ok"
       THEN /\ files' = [files EXCEPT
                            !.result_json = ResultDocument("success", "", "this run")]
            /\ pc' = sys_exit(0)
            /\ UNCHANGED result
       ELSE /\ pc' = "except"
            /\ result' = Exception(outcome)
            /\ UNCHANGED files
    /\ UNCHANGED <<schedule_pool, debt_list, credit_list, llm_result, normalized_ids,
                   restored, new_debt_list, new_credit_list>>
    /\ MainFrame

\* except Exception as ex: write_result(..., "error", str(ex)) with its own
\* errors passed over, then sys.exit(1); outcome is what save_json_atomic did
Except(outcome) ==
    /\ pc \in {"raised", "except"}
    /\ save_call' = [path |-> "result.json", raised |-> outcome # "ok"]
    /\ files' = IF outcome = "ok"
                THEN [files EXCEPT
                         !.result_json = ResultDocument("error", result.error, "this run")]
                ELSE files
    /\ pc' = sys_exit(1)
    /\ UNCHANGED <<schedule_pool, debt_list, credit_list, llm_result, normalized_ids,
                   restored, new_debt_list, new_credit_list, result>>
    /\ MainFrame

SaveOutcomes == {"ok", "PermissionError"}

NextMain ==
    \/ \E outcome \in LoadErrors \cup {"ok"} : LoadInputs(outcome)
    \/ CallLlm
    \/ \E r \in Responses : StreamAttempt(r)
    \/ \E r \in Responses : NonStreamAttempt(r)
    \/ ParseContent
    \/ \E r \in Responses : RepairAttempt(r)
    \/ \E llm \in MainOutputs : UseOutput(llm)
    \/ \E outcome \in SaveOutcomes : SaveState(outcome)
    \/ \E outcome \in SaveOutcomes : WriteSuccess(outcome)
    \/ \E outcome \in SaveOutcomes : Except(outcome)

SpecMain == InitMain /\ [][NextMain]_vars

\* the result document this run writes for the error it raised
ErrorReport == ResultDocument("error", result.error, "this run")

\* C25 as stated: a run that raised an error ends with exit status 1 and
\* with the result document holding status error and the message of the
\* error; the result document holds the success of this run only when the
\* run raised nothing.
C25_EveryErrorReported ==
    /\ pc = "exit_1" => files.result_json = ErrorReport
    /\ (pc \in {"exit_0", "exit_1"} /\ result.status = "raised") => pc = "exit_1"
    /\ files.result_json = ResultDocument("success", "", "this run") =>
           result.status # "raised"

\* C25: every error raised in the try block of main reaches the handler,
\* and the handler ends the run with exit status 1; the result document then
\* holds status error and the message of the error when the write of the
\* result document succeeds, and is left as it was when that write fails.
\* The success of this run is in the result document only when the run
\* raised nothing, and then the exit status is 0.
C25_ErrorExitsNonZeroReportedWhenWritable ==
    [][/\ (result'.status = "raised" /\ result.status # "raised") =>
              pc' \in {"raised", "except"}
       /\ pc \in {"raised", "except"} =>
              /\ result.status = "raised"
              /\ result.error # ""
              /\ pc' = "exit_1"
              /\ IF save_call'.raised THEN files' = files
                 ELSE files' = [files EXCEPT !.result_json = ErrorReport]
       /\ pc' = "exit_0" =>
              /\ result'.status # "raised"
              /\ files'.result_json = ResultDocument("success", "", "this run")
       /\ files'.result_json = ResultDocument("success", "", "this run") =>
              /\ result'.status # "raised"
              /\ pc' = "exit_0"]_vars

\* the write of the state document failed: exit status 1, the state
\* document as it was read, the error in the result document
C25_Witness ==
    /\ pc = "exit_1"
    /\ restored # <<>>
    /\ files.state_json = "as read"
    /\ result = Exception("PermissionError")
    /\ save_call = [path |-> "result.json", raised |-> FALSE]
    /\ files.result_json = ResultDocument("error", "PermissionError", "this run")

\* the schedule is not a list, or an entry has no date, a date that is not
\* a date, or a date before the date of the entry before it
SchemaViolation(schedule) ==
    \/ schedule.kind # "list"
    \/ \E i \in 1..Len(schedule.items) :
           \/ Strip(schedule.items[i].date) = <<>>
           \/ ParseDate(Strip(schedule.items[i].date)) = NoDate
           \/ /\ i > 1
              /\ DateLess(ParseDate(Strip(schedule.items[i].date)),
                          ParseDate(Strip(schedule.items[i - 1].date)))

SpecLlmFair == SpecLlm /\ WF_vars(NextLlm)

\* the streaming requests among the requests of the call
StreamRequests == SelectSeq(llm_call.requests, LAMBDA q : q.mode = "stream")

\* the non-streaming requests for the prompt among the requests of the call
PromptRequests ==
    SelectSeq(llm_call.requests,
              LAMBDA q : q.mode = "non_stream" /\ q.messages = PromptMessages)

\* call_llm has returned a parsed value or raised an error
Terminated ==
    \/ pc = "returned" /\ result.status = "returned" /\ result.parsed.json \in JsonDocs
    \/ pc = "raised" /\ result.status = "raised" /\ result.error # "none"

\* C31: call_llm ends with a parsed value or a raised error; its requests
\* are issued one per step, the streaming requests first, then the
\* non-streaming requests for the prompt, then the repair requests, at most
\* 3 of each for the one repair of LLM_PARSE_MAX_RETRIES = 1, so never more
\* than 9 requests in a call.
C31_TerminatesWithinNineRequests ==
    /\ [](/\ Len(StreamRequests) <= 3
          /\ Len(PromptRequests) <= 3
          /\ llm_call.requests = StreamRequests \o PromptRequests \o RepairRequests
          /\ llm_call.parse_max_retries = LLM_PARSE_MAX_RETRIES =>
                 /\ Len(RepairRequests) <= 3
                 /\ Len(llm_call.requests) <= 9)
    /\ [][/\ Len(llm_call'.requests) <= Len(llm_call.requests) + 1
          /\ SubSeq(llm_call'.requests, 1, Len(llm_call.requests)) = llm_call.requests
          /\ ~Terminated]_vars
    /\ <>Terminated

\* a call of nine requests: three streaming attempts end with a status that
\* means streaming is unsupported, the third non-streaming attempt returns a
\* malformed output, and the third attempt of the repair request answers
C31_Witness ==
    /\ pc \in {"returned", "raised"}
    /\ llm_call.parse_max_retries = LLM_PARSE_MAX_RETRIES
    /\ Len(llm_call.requests) = 9
    /\ Len(StreamRequests) = 3
    /\ Len(PromptRequests) = 3
    /\ Len(RepairRequests) = 3

(***************************************************************************)
(* request_llm_stream: the progress callback.  Time is counted in tenths   *)
(* of a second; time.time() is read when a text delta has arrived.         *)
(***************************************************************************)
LLM_STREAM_PROGRESS_MIN_INTERVAL_SECONDS == 2   \* 0.2 s, in tenths of a second

MaxLines == 3       \* lines of a response body
MaxWait == 2        \* tenths of a second between two lines

\* the lines of a body: what the loop over resp does with each of them
StreamLines ==
    {"blank", "comment", "other", "data_empty", "data_bad_json", "data_no_text",
     "data_done", "delta_a", "delta_space"}

\* the text of a data line that carries a text delta
DeltaText(line) == IF line = "delta_a" THEN "a" ELSE " "

\* what the body is when it holds no data line
RawBodies == {"empty", "not_json", "json_no_content", "json"}

NoStream ==
    [now |-> 0, last_progress_emit_at |-> 0, chunks |-> <<>>,
     buffered_for_progress |-> <<>>, saw_sse_data |-> FALSE, lines |-> 0,
     raw_text |-> "empty", progress |-> <<>>, error |-> "none"]

\* invoke_progress_callback(progress_callback, phase, message, chunk) with a
\* callback: the log of the invocations, each with the time of the call
invoke_progress_callback(progress, phase, chunk, at) ==
    Append(progress, [phase |-> phase, chunk |-> chunk, at |-> at])

\* a debounce test that lets every delta through
ProgressDue_always(now, last_progress_emit_at) == TRUE

\* (now - last_progress_emit_at) >= LLM_STREAM_PROGRESS_MIN_INTERVAL_SECONDS
ProgressDue(now, last_progress_emit_at) ==
    (now - last_progress_emit_at) >= LLM_STREAM_PROGRESS_MIN_INTERVAL_SECONDS

\* not content.strip(), for the joined text of the chunks
BlankChunks(chunks) == \A i \in 1..Len(chunks) : chunks[i] = " "

InitStream ==
    /\ stream_call \in {[NoStream EXCEPT !.now = t] : t \in 0..1}
    /\ llm_call = NoCall
    /\ llm_result = NoLlmResult
    /\ active_ids = <<>>
    /\ area_names = <<>>
    /\ area_per_day_counts = <<>>
    /\ schedule_pool = <<>>
    /\ debt_list = <<>>
    /\ credit_list = <<>>
    /\ apply_mode = "append"
    /\ start_date = NoDate
    /\ normalized_ids = <<>>
    /\ restored = <<>>
    /\ new_debt_list = <<>>
    /\ new_credit_list = <<>>
    /\ result = "none"
    /\ runs = 0
    /\ input_data = JOther
    /\ save_call = <<>>
    /\ files = <<>>
    /\ sanitized_instruction = <<>>
    /\ name_to_id = <<>>
    /\ instruction = <<>>
    /\ span_days = 0
    /\ roster_rows = <<>>
    /\ pc = "ready"

StreamFrame ==
    UNCHANGED <<schedule_pool, debt_list, credit_list, active_ids, area_names,
                area_per_day_counts, llm_result, apply_mode, start_date,
                normalized_ids, restored, new_debt_list, new_credit_list, result,
                runs, llm_call, instruction, name_to_id, sanitized_instruction,
                files, save_call, input_data, span_days, roster_rows>>

\* request_llm_stream up to the first line of the body: the stream_start
\* call, last_progress_emit_at = time.time(), and urlopen, which answers
\* after wait or raises
StreamStart(opened, wait) ==
    /\ pc = "ready"
    /\ stream_call' =
           [stream_call EXCEPT
               !.progress = invoke_progress_callback(@, "stream_start", <<>>,
                                                     stream_call.now),
               !.last_progress_emit_at = stream_call.now,
               !.now = @ + wait,
               !.error = IF opened THEN "none" ELSE "HTTPError"]
    /\ pc' = IF opened THEN "reading" ELSE "raised"
    /\ StreamFrame

\* one iteration of for raw_line in resp, for a line that arrives after wait
ReadLine(line, wait) ==
    /\ pc = "reading"
    /\ stream_call.lines < MaxLines
    /\ LET now == stream_call.now + wait
           read == [stream_call EXCEPT
                       !.now = now,
                       !.lines = @ + 1,
                       !.raw_text = IF line = "blank" THEN @
                                    ELSE IF line = "other" /\ @ # "not_json" THEN "maybe_json"
                                    ELSE "not_json"]
       IN  CASE line \in {"blank", "comment", "other"} ->
                    /\ stream_call' = read
                    /\ pc' = pc
             [] line \in {"data_empty", "data_bad_json", "data_no_text"} ->
                    /\ stream_call' = [read EXCEPT !.saw_sse_data = TRUE]
                    /\ pc' = pc
             [] line = "data_done" ->
                    /\ stream_call' = [read EXCEPT !.saw_sse_data = TRUE]
                    /\ pc' = "eof"
             [] OTHER ->
                    LET text == DeltaText(line)
                        buffered == Append(stream_call.buffered_for_progress, text)
                    IN  /\ stream_call' =
                               IF ProgressDue(now, stream_call.last_progress_emit_at)
                               THEN [read EXCEPT
                                        !.saw_sse_data = TRUE,
                                        !.chunks = Append(@, text),
                                        !.buffered_for_progress = <<>>,
                                        !.progress = invoke_progress_callback(
                                                         @, "stream_chunk", buffered, now),
                                        !.last_progress_emit_at = now]
                               ELSE [read EXCEPT
                                        !.saw_sse_data = TRUE,
                                        !.chunks = Append(@, text),
                                        !.buffered_for_progress = buffered]
                        /\ pc' = pc
    /\ StreamFrame

\* the body ends, or reading it raises
EndOfBody(ok) ==
    /\ pc = "reading"
    /\ pc' = IF ok THEN "eof" ELSE "raised"
    /\ stream_call' = [stream_call EXCEPT !.error = IF ok THEN "none" ELSE "TimeoutError"]
    /\ StreamFrame

\* request_llm_stream after the loop; raw is what the body is when it is
\* not empty and holds no data line
StreamEnd(raw) ==
    /\ pc = "eof"
    /\ raw = "empty" <=> stream_call.raw_text = "empty"
    /\ raw \in {"json", "json_no_content"} => stream_call.raw_text = "maybe_json"
    /\ IF ~stream_call.saw_sse_data
       THEN IF raw = "json"
            THEN /\ stream_call' =
                        [stream_call EXCEPT
                            !.progress = invoke_progress_callback(@, "stream_end", <<>>,
                                                                  stream_call.now)]
                 /\ pc' = "returned"
            ELSE /\ stream_call' = [stream_call EXCEPT !.error = "StreamUnsupportedError"]
                 /\ pc' = "raised"
       ELSE LET flushed ==
                    IF stream_call.buffered_for_progress # <<>>
                    THEN invoke_progress_callback(stream_call.progress, "stream_chunk",
                                                  stream_call.buffered_for_progress,
                                                  stream_call.now)
                    ELSE stream_call.progress
            IN  IF BlankChunks(stream_call.chunks)
                THEN /\ stream_call' = [stream_call EXCEPT !.progress = flushed,
                                                           !.error = "RuntimeError"]
                     /\ pc' = "raised"
                ELSE /\ stream_call' =
                            [stream_call EXCEPT
                                !.progress = invoke_progress_callback(
                                                 flushed, "stream_end", <<>>,
                                                 stream_call.now)]
                     /\ pc' = "returned"
    /\ StreamFrame

NextStream ==
    \/ \E opened \in BOOLEAN, wait \in 0..MaxWait : StreamStart(opened, wait)
    \/ \E line \in StreamLines, wait \in 0..MaxWait : ReadLine(line, wait)
    \/ \E ok \in BOOLEAN : EndOfBody(ok)
    \/ \E raw \in RawBodies : StreamEnd(raw)

SpecStream == InitStream /\ [][NextStream]_vars

\* the invocations of the callback with the given phase, in order
Calls(phase) == SelectSeq(stream_call.progress, LAMBDA c : c.phase = phase)

\* no two of the chunk notifications are closer together than the minimum
\* interval
Debounced(calls) ==
    \A i, j \in 1..Len(calls) :
        i < j => calls[j].at - calls[i].at >= LLM_STREAM_PROGRESS_MIN_INTERVAL_SECONDS

\* stream_start is the first invocation and the only one of its phase;
\* stream_end is invoked once, last, by a call that returns, and not at all
\* by a call that raises
StartAndEndOnce ==
    /\ pc # "ready" =>
           /\ Len(Calls("stream_start")) = 1
           /\ stream_call.progress[1].phase = "stream_start"
    /\ pc = "returned" =>
           /\ Len(Calls("stream_end")) = 1
           /\ stream_call.progress[Len(stream_call.progress)].phase = "stream_end"
    /\ pc # "returned" => Len(Calls("stream_end")) = 0

\* C32 as stated: the callback is invoked once at stream start and once at
\* stream end, and no two chunk notifications of a stream are closer
\* together than LLM_STREAM_PROGRESS_MIN_INTERVAL_SECONDS.
C32_ChunkNotificationsDebounced ==
    /\ StartAndEndOnce
    /\ Debounced(Calls("stream_chunk"))

\* C32: the callback is invoked once at stream start and, when the call
\* returns, once at stream end; the chunk notifications issued while the
\* body is read are at least LLM_STREAM_PROGRESS_MIN_INTERVAL_SECONDS apart
\* from each other and from the stream start; after the body at most one
\* more chunk notification follows, at any distance, with the text that is
\* still buffered, so that the notified chunks add up to the received text.
C32_DebouncedWhileReadingThenFlushed ==
    [][/\ StartAndEndOnce'
       /\ pc' = "reading" =>
              /\ Debounced(Calls("stream_chunk")')
              /\ \A i \in 1..Len(Calls("stream_chunk")') :
                     Calls("stream_chunk")'[i].at - stream_call'.progress[1].at
                         >= LLM_STREAM_PROGRESS_MIN_INTERVAL_SECONDS
       /\ pc = "eof" =>
              /\ Len(Calls("stream_chunk")') <= Len(Calls("stream_chunk")) + 1
              /\ (stream_call.saw_sse_data /\ pc' = "returned") =>
                     LET notified == Calls("stream_chunk")'
                         RECURSIVE Joined(_)
                         Joined(k) == IF k = 0 THEN <<>>
                                      ELSE Joined(k - 1) \o notified[k].chunk
                     IN  Joined(Len(notified)) = stream_call.chunks]_vars

\* a stream that returns after two chunk notifications less than the
\* minimum interval apart: the second one is the notification after the body
C32_Witness ==
    /\ pc = "returned"
    /\ stream_call.saw_sse_data
    /\ Len(Calls("stream_chunk")) = 2
    /\ Calls("stream_chunk")[2].at - Calls("stream_chunk")[1].at
           < LLM_STREAM_PROGRESS_MIN_INTERVAL_SECONDS

(***************************************************************************)
(* build_calendar_anchor: the calendar grounding block for the window that *)
(* starts today and lasts span_days days.                                  *)
(***************************************************************************)
MaxSpan == 35       \* days of a window

\* d + timedelta(days=n), n >= 0
RECURSIVE PlusDays(_, _)
PlusDays(d, n) == IF n = 0 THEN d ELSE PlusDays(NextDay(d), n - 1)

\* the line "Cross-Month Boundary: last (weekday) -> first (weekday)"
BoundaryLine(last_day_of_month) ==
    LET next_month_first == NextDay(last_day_of_month)
    IN  [last |-> FormatDate(last_day_of_month),
         last_weekday |-> Weekday(last_day_of_month),
         first |-> FormatDate(next_month_first),
         first_weekday |-> Weekday(next_month_first)]

\* the while loop of build_calendar_anchor from cursor on
RECURSIVE CrossMonthLoop(_, _, _)
CrossMonthLoop(cursor, start, end) ==
    IF ~DateLeq(cursor, end) THEN <<>>
    ELSE LET last_day_of_month ==
                 <<cursor[1], cursor[2], DaysInMonth(cursor[1], cursor[2])>>
             lines == IF DateLeq(start, last_day_of_month) /\ DateLeq(last_day_of_month, end)
                      THEN <<BoundaryLine(last_day_of_month)>>
                      ELSE <<>>
             next == IF cursor[2] = 12 THEN <<cursor[1] + 1, 1, 1>>
                     ELSE <<cursor[1], cursor[2] + 1, 1>>
         IN  lines \o CrossMonthLoop(next, start, end)

\* if start_date.month != end_date.month: the loop from the first day of
\* the month of start_date
CrossMonthLines(start, end) ==
    IF start[2] # end[2] THEN CrossMonthLoop(<<start[1], start[2], 1>>, start, end)
    ELSE <<>>

\* the block for today and span_days, without the fixed text
build_calendar_anchor(today, days) ==
    LET end_date == PlusDays(today, days - 1)
    IN  [start |-> FormatDate(today), start_weekday |-> Weekday(today),
         end |-> FormatDate(end_date), end_weekday |-> Weekday(end_date),
         total_days |-> days,
         boundaries |-> CrossMonthLines(today, end_date)]

CalendarDays ==
    {<<y, m, d>> : y \in {2023, 2024}, m \in {1, 2, 12}, d \in 1..31} \
    {<<y, m, d>> \in {2023, 2024} \X {1, 2, 12} \X (1..31) : d > DaysInMonth(y, m)}

InitCalendar ==
    /\ start_date \in CalendarDays
    /\ span_days \in 1..MaxSpan
    /\ stream_call = <<>>
    /\ llm_call = NoCall
    /\ llm_result = NoLlmResult
    /\ active_ids = <<>>
    /\ area_names = <<>>
    /\ area_per_day_counts = <<>>
    /\ schedule_pool = <<>>
    /\ debt_list = <<>>
    /\ credit_list = <<>>
    /\ apply_mode = "append"
    /\ normalized_ids = <<>>
    /\ restored = <<>>
    /\ new_debt_list = <<>>
    /\ new_credit_list = <<>>
    /\ result = "none"
    /\ runs = 0
    /\ input_data = JOther
    /\ save_call = <<>>
    /\ files = <<>>
    /\ sanitized_instruction = <<>>
    /\ name_to_id = <<>>
    /\ instruction = <<>>
    /\ roster_rows = <<>>
    /\ pc = "ready"

\* cal_anchor = build_calendar_anchor(...), for today = start_date
BuildCalendarAnchor ==
    /\ pc = "ready"
    /\ result' = build_calendar_anchor(start_date, span_days)
    /\ pc' = "built"
    /\ UNCHANGED <<schedule_pool, debt_list, credit_list, active_ids, area_names,
                   area_per_day_counts, llm_result, apply_mode, start_date,
                   normalized_ids, restored, new_debt_list, new_credit_list,
                   runs, llm_call, instruction, name_to_id, sanitized_instruction,
                   files, save_call, input_data, stream_call, span_days, roster_rows>>

NextCalendar == BuildCalendarAnchor

SpecCalendar == InitCalendar /\ [][NextCalendar]_vars

\* the days of the window that are the last day of their month
LastDaysInWindow ==
    {d \in {PlusDays(start_date, k) : k \in 0..(span_days - 1)} :
        d[3] = DaysInMonth(d[1], d[2])}

\* C33: the block lists a boundary for every last day of a month that lies
\* in the window [start date, end date], as the last day and the first day
\* of the next month, and lists no other boundary.
C33_EveryBoundaryInWindowListed ==
    pc = "built" =>
        /\ \A d \in LastDaysInWindow :
               \E i \in 1..Len(result.boundaries) :
                   /\ result.boundaries[i].last = FormatDate(d)
                   /\ result.boundaries[i].first = FormatDate(NextDay(d))
        /\ \A i \in 1..Len(result.boundaries) :
               \E d \in LastDaysInWindow : result.boundaries[i].last = FormatDate(d)

(***************************************************************************)
(* get_anchor_id.  The pool holds entries as restore_schedule and          *)
(* merge_schedule_pool leave them: area_assignments maps area names to     *)
(* lists of person names, the dates are unique and ascending.              *)
(***************************************************************************)
MaxAnchorPool == 2      \* entries of a pool

\* str(name).strip() for the person names that occur
StripPerson(name) == IF name = " n2" THEN "n2" ELSE name

\* get_pool_entries_with_date: the entries whose date strptime accepts, each
\* with its date, sorted by date; entries of equal date keep their order
RECURSIVE SortedByDate(_)
SortedByDate(entries) ==
    IF entries = <<>> THEN <<>>
    ELSE LET first == CHOOSE i \in 1..Len(entries) :
                          /\ \A j \in 1..Len(entries) : DateLeq(entries[i][2], entries[j][2])
                          /\ \A j \in 1..(i - 1) : DateLess(entries[i][2], entries[j][2])
         IN  <<entries[first]>>
             \o SortedByDate(SubSeq(entries, 1, first - 1)
                             \o SubSeq(entries, first + 1, Len(entries)))

get_pool_entries_with_date(pool) ==
    LET dated == SelectSeq(pool, LAMBDA entry : ParseDate(entry.date) # NoDate)
    IN  SortedByDate([i \in 1..Len(dated) |-> <<dated[i], ParseDate(dated[i].date)>>])

\* candidates that ignore the start date
Candidates_all(entries, start, mode) == entries

\* candidates = entries in append mode, else the entries before start_date
Candidates(entries, start, mode) ==
    IF mode = "append" THEN entries
    ELSE SelectSeq(entries, LAMBDA x : DateLess(x[2], start))

\* a test that takes every id for active
IsActive_any(anchor_id, active) == TRUE

\* anchor_id in active_ids
IsActive(anchor_id, active) == anchor_id \in Range(active)

\* the loop over area_assignments.values() from the j-th area on: the id it
\* returns, or 0 when it returns nothing
RECURSIVE AnchorOfEntry(_, _, _, _)
AnchorOfEntry(area_assignments, j, names, active) ==
    IF j > Len(area_assignments) THEN 0
    ELSE LET name_list == area_assignments[j][2]
             last_name == StripPerson(name_list[Len(name_list)])
         IN  IF name_list # <<>> /\ DictHas(names, last_name)
                /\ IsActive(DictGet(names, last_name, 0), active)
             THEN DictGet(names, last_name, 0)
             ELSE AnchorOfEntry(area_assignments, j + 1, names, active)

\* for entry, _ in reversed(candidates), from the k-th candidate down
RECURSIVE AnchorScan(_, _, _, _)
AnchorScan(candidates, k, names, active) ==
    IF k = 0 THEN active[Len(active)]
    ELSE LET anchor_id == AnchorOfEntry(candidates[k][1].area_assignments, 1, names, active)
         IN  IF anchor_id # 0 THEN anchor_id
             ELSE AnchorScan(candidates, k - 1, names, active)

get_anchor_id(pool, names, active, start, mode) ==
    LET candidates == Candidates(get_pool_entries_with_date(pool), start, mode)
    IN  AnchorScan(candidates, Len(candidates), names, active)

AnchorNameToId == <<<<"n1", 1>>, <<"n2", 2>>, <<"n3", 3>>>>

AnchorActiveIds == {<<1, 2, 3>>, <<1, 3>>, <<1, 2>>, <<2>>}

AnchorAssignments ==
    {<<>>,
     <<<<"A", <<>>>>>>,
     <<<<"A", <<"n1">>>>>>,
     <<<<"A", <<"n2", "n3">>>>>>,
     <<<<"A", <<"gone">>>>>>,
     <<<<"A", <<"n1">>>>, <<"B", <<"n3", " n2">>>>>>,
     <<<<"A", <<"gone">>>>, <<"B", <<"n3">>>>>>,
     <<<<"A", <<>>>>, <<"B", <<"n2">>>>>>}

AnchorEntries ==
    {[date |-> s, area_assignments |-> a, note |-> ""] :
        s \in IsoDateStrings \cup {Str_02_30}, a \in AnchorAssignments}

AnchorPools ==
    {pool \in SeqsUpTo(AnchorEntries, MaxAnchorPool) :
        \A i \in 1..(Len(pool) - 1) : StrLess(pool[i].date, pool[i + 1].date)}

InitAnchor ==
    /\ schedule_pool \in AnchorPools
    /\ name_to_id = AnchorNameToId
    /\ active_ids \in AnchorActiveIds
    /\ start_date \in StartDates
    /\ apply_mode \in {"append", "replace_all"}
    /\ span_days = 0
    /\ stream_call = <<>>
    /\ llm_call = NoCall
    /\ llm_result = NoLlmResult
    /\ area_names = <<>>
    /\ area_per_day_counts = <<>>
    /\ debt_list = <<>>
    /\ credit_list = <<>>
    /\ normalized_ids = <<>>
    /\ restored = <<>>
    /\ new_debt_list = <<>>
    /\ new_credit_list = <<>>
    /\ result = 0
    /\ runs = 0
    /\ input_data = JOther
    /\ save_call = <<>>
    /\ files = <<>>
    /\ sanitized_instruction = <<>>
    /\ instruction = <<>>
    /\ roster_rows = <<>>
    /\ pc = "ready"

\* anchor_id = get_anchor_id(state_data, name_to_id, active_ids, start_date, apply_mode)
GetAnchorId ==
    /\ pc = "ready"
    /\ result' = get_anchor_id(schedule_pool, name_to_id, active_ids, start_date, apply_mode)
    /\ pc' = "anchored"
    /\ UNCHANGED <<schedule_pool, debt_list, credit_list, active_ids, area_names,
                   area_per_day_counts, llm_result, apply_mode, start_date,
                   normalized_ids, restored, new_debt_list, new_credit_list,
                   runs, llm_call, instruction, name_to_id, sanitized_instruction,
                   files, save_call, input_data, stream_call, span_days, roster_rows>>

NextAnchor == GetAnchorId

SpecAnchor == InitAnchor /\ [][NextAnchor]_vars

\* the positions of the pool entries the scan covers: every entry with a
\* date in append mode, else those dated before the start date
Scanned ==
    {i \in 1..Len(schedule_pool) :
        /\ ParseDate(schedule_pool[i].date) # NoDate
        /\ apply_mode # "append" => DateLess(ParseDate(schedule_pool[i].date), start_date)}

\* the entry at position i is the most recent one of those in S
MostRecent(i, S) ==
    /\ i \in S
    /\ \A j \in S : DateLeq(ParseDate(schedule_pool[j].date), ParseDate(schedule_pool[i].date))

\* the non-empty assignment lists of an entry
NonEmptyLists(entry) ==
    {entry.area_assignments[j][2] : j \in 1..Len(entry.area_assignments)} \ {<<>>}

\* C34 as stated: the result is the id of the last name of an area of the
\* most recent scanned entry that holds a non-empty assignment list, and the
\* highest active id when no scanned entry holds one.
C34_LastIdOfMostRecentAssignment ==
    pc = "anchored" =>
        LET holding == {i \in Scanned : NonEmptyLists(schedule_pool[i]) # {}}
        IN  IF holding = {} THEN result = MaxOf(Range(active_ids))
            ELSE \E i \in holding :
                     /\ MostRecent(i, holding)
                     /\ \E list \in NonEmptyLists(schedule_pool[i]) :
                            /\ DictHas(name_to_id, StripPerson(list[Len(list)]))
                            /\ result = DictGet(name_to_id, StripPerson(list[Len(list)]), 0)

\* the areas of an entry whose last name is the name of an active person
Anchoring(entry) ==
    {j \in 1..Len(entry.area_assignments) :
        LET list == entry.area_assignments[j][2]
        IN  /\ list # <<>>
            /\ DictHas(name_to_id, StripPerson(list[Len(list)]))
            /\ DictGet(name_to_id, StripPerson(list[Len(list)]), 0) \in Range(active_ids)}

\* C34: the result is taken from the most recent scanned entry that has an
\* area whose last name is the name of an active person: it is the id of
\* that name in the first such area of the entry; entries without such an
\* area are passed over, and the result is the highest active id when no
\* scanned entry has one.
C34_LastActiveIdOfMostRecentAssignment ==
    pc = "anchored" =>
        LET anchoring == {i \in Scanned : Anchoring(schedule_pool[i]) # {}}
        IN  IF anchoring = {} THEN result = MaxOf(Range(active_ids))
            ELSE \E i \in anchoring :
                     /\ MostRecent(i, anchoring)
                     /\ LET list == schedule_pool[i].area_assignments[
                                        MinOf(Anchoring(schedule_pool[i]))][2]
                        IN  result = DictGet(name_to_id, StripPerson(list[Len(list)]), 0)

\* the most recent entry names only a person who is not active, an older
\* entry before the start date names an active one: the older entry gives
\* the anchor
C34_Witness ==
    /\ pc = "anchored"
    /\ apply_mode # "append"
    /\ active_ids = <<1, 3>>
    /\ start_date = <<2026, 2, 10>>
    /\ Len(schedule_pool) = 2
    /\ schedule_pool[1].date = Str_02_05
    /\ schedule_pool[1].area_assignments = <<<<"A", <<"n1">>>>, <<"B", <<"n3", " n2">>>>>>
    /\ schedule_pool[2].date = Str_02_09
    /\ schedule_pool[2].area_assignments = <<<<"A", <<>>>>, <<"B", <<"n2">>>>>>
    /\ result = 1

\* C38: for a non-empty list of active ids the result of get_anchor_id is a
\* member of that list, whatever the pool names.
C38_AnchorIsActive ==
    (pc = "anchored" /\ active_ids # <<>>) => result \in Range(active_ids)

\* the last name of the most recent entry is the name of a person who is
\* not active, and no other entry is scanned: the anchor is the highest
\* active id
C38_Witness ==
    /\ pc = "anchored"
    /\ active_ids = <<1, 3>>
    /\ Len(schedule_pool) = 1
    /\ schedule_pool[1].date = Str_02_05
    /\ schedule_pool[1].area_assignments = <<<<"A", <<>>>>, <<"B", <<"n2">>>>>>
    /\ apply_mode = "append"
    /\ result = 3

(***************************************************************************)
(* load_roster.  A row is [id, name, active] with id and active already    *)
(* integers; a name is a sequence of characters.                           *)
(***************************************************************************)
MaxRows == 3        \* data rows of roster.csv

\* to_unique_name(raw_name, seen_counts): the name returned and seen_counts
\* after the call
to_unique_name(raw_name, seen_counts) ==
    LET base_name == Strip(raw_name)
        next_count == DictGet(seen_counts, base_name, 0) + 1
    IN  IF base_name = <<>> THEN [name |-> <<>>, seen |-> seen_counts]
        ELSE [name |-> IF next_count = 1 THEN base_name
                       ELSE base_name \o StrOfInt(next_count),
              seen |-> DictSet(seen_counts, base_name, next_count)]

\* the loop of load_roster over the rows from the i-th on
RECURSIVE RosterLoop(_, _, _)
RosterLoop(rows, i, acc) ==
    IF i > Len(rows) THEN acc
    ELSE LET row == rows[i]
             raw_name == Strip(row.name)
             unique == to_unique_name(raw_name, acc.seen_name_counts)
         IN  IF raw_name = <<>> \/ row.id <= 0 THEN RosterLoop(rows, i + 1, acc)
             ELSE RosterLoop(rows, i + 1,
                        [name_to_id |-> DictSet(acc.name_to_id, unique.name, row.id),
                         id_to_name |-> DictSet(acc.id_to_name, row.id, unique.name),
                         all_ids |-> acc.all_ids \cup {row.id},
                         active_ids |-> IF row.active = 1 THEN acc.active_ids \cup {row.id}
                                        ELSE acc.active_ids,
                         seen_name_counts |-> unique.seen])

load_roster(rows) ==
    LET loaded == RosterLoop(rows, 1, [name_to_id |-> <<>>, id_to_name |-> <<>>,
                                       all_ids |-> {}, active_ids |-> {},
                                       seen_name_counts |-> <<>>])
    IN  IF loaded.active_ids = {}
        THEN [raised |-> "ValueError", name_to_id |-> <<>>, id_to_name |-> <<>>,
              active_ids |-> <<>>, all_ids |-> <<>>]
        ELSE [raised |-> "none", name_to_id |-> loaded.name_to_id,
              id_to_name |-> loaded.id_to_name,
              active_ids |-> SortedInts(loaded.active_ids),
              all_ids |-> SortedInts(loaded.all_ids)]

RosterNames == {<<"A">>, <<"A", "2">>, <<" ", "A">>, <<" ">>}

\* rows with pairwise distinct ids
RosterRows ==
    {rows \in SeqsUpTo([id : 1..MaxRows, name : RosterNames, active : {0, 1}], MaxRows) :
        \A i, j \in 1..Len(rows) : i # j => rows[i].id # rows[j].id}

InitRoster ==
    /\ roster_rows \in RosterRows
    /\ schedule_pool = <<>>
    /\ name_to_id = <<>>
    /\ active_ids = <<>>
    /\ start_date = NoDate
    /\ apply_mode = "append"
    /\ span_days = 0
    /\ stream_call = <<>>
    /\ llm_call = NoCall
    /\ llm_result = NoLlmResult
    /\ area_names = <<>>
    /\ area_per_day_counts = <<>>
    /\ debt_list = <<>>
    /\ credit_list = <<>>
    /\ normalized_ids = <<>>
    /\ restored = <<>>
    /\ new_debt_list = <<>>
    /\ new_credit_list = <<>>
    /\ result = "none"
    /\ runs = 0
    /\ input_data = JOther
    /\ save_call = <<>>
    /\ files = <<>>
    /\ sanitized_instruction = <<>>
    /\ instruction = <<>>
    /\ pc = "ready"

\* name_to_id, id_to_name, active_ids, all_ids = load_roster(ctx.paths["roster"])
LoadRoster ==
    /\ pc = "ready"
    /\ result' = load_roster(roster_rows)
    /\ name_to_id' = result'.name_to_id
    /\ active_ids' = result'.active_ids
    /\ pc' = "loaded"
    /\ UNCHANGED <<schedule_pool, debt_list, credit_list, area_names,
                   area_per_day_counts, llm_result, apply_mode, start_date,
                   normalized_ids, restored, new_debt_list, new_credit_list,
                   runs, llm_call, instruction, sanitized_instruction,
                   files, save_call, input_data, stream_call, span_days, roster_rows>>

NextRoster == LoadRoster

SpecRoster == InitRoster /\ [][NextRoster]_vars

\* the ids of the rows load_roster keeps
LoadedIds == {roster_rows[i].id : i \in {k \in 1..Len(roster_rows) : Strip(roster_rows[k].name) # <<>>}}

\* C35: for rows with distinct ids, the names load_roster gives the loaded
\* persons are pairwise distinct, and name_to_id and id_to_name are inverse
\* bijections between these names and the loaded ids.
C35_UniqueNamesBijection ==
    (pc = "loaded" /\ result.raised = "none") =>
        /\ DictKeys(result.id_to_name) = LoadedIds
        /\ \A p, q \in LoadedIds :
               p # q => DictGet(result.id_to_name, p, <<>>) # DictGet(result.id_to_name, q, <<>>)
        /\ \A p \in LoadedIds :
               DictGet(result.name_to_id, DictGet(result.id_to_name, p, <<>>), 0) = p
        /\ \A n \in DictKeys(result.name_to_id) :
               DictGet(result.id_to_name, DictGet(result.name_to_id, n, 0), <<>>) = n

\* C36: a run writes the state document at most once, after call_llm has
\* returned, the schedule has passed validation and normalization, the
\* ledgers are reconciled and the pool is merged; a run that ends with the
\* result document holding an error of this run leaves the state document
\* (pool, debt list, credit list) as it was before the run.
C36_StateWrittenOnceAndOnlyBySuccess ==
    [][/\ <<schedule_pool, debt_list, credit_list, files.state_json>>'
              # <<schedule_pool, debt_list, credit_list, files.state_json>> =>
              /\ pc = "save_state"
              /\ files.state_json = "as read"
              /\ files'.state_json = "written"
              /\ result.status = "returned"
              /\ llm_result.ok
              /\ ~SchemaViolation(llm_result.schedule)
              /\ restored # <<>>
       /\ (pc' = "exit_1" /\ files'.result_json.status = "error"
              /\ files'.result_json.run = "this run") =>
              /\ files'.state_json = "as read"
              /\ <<schedule_pool, debt_list, credit_list>>' = <<<<>>, <<>>, <<>>>>]_vars

(***************************************************************************)
(* Runs of main on a state document written under an earlier roster: the   *)
(* ledgers it holds are sorted and free of duplicates, and id 3 is no      *)
(* longer active.                                                          *)
(***************************************************************************)
CarriedDebtLists == {<<>>, <<2>>, <<3>>, <<1, 3>>}

CarriedCreditLists == {<<>>, <<3>>, <<2, 3>>}

CarriedLlmResults ==
    {LlmResult(JList(<<e>>), d, c) :
         e \in RunEntries, d \in RunDebtReports, c \in RunCreditReports}

InitCarried ==
    /\ schedule_pool = <<>>
    /\ debt_list \in CarriedDebtLists
    /\ credit_list \in CarriedCreditLists
    /\ active_ids = RunActiveIds
    /\ area_names = RunAreaNames
    /\ area_per_day_counts = RunAreaCounts
    /\ llm_result = NoLlmResult
    /\ apply_mode = "append"
    /\ start_date = NoDate
    /\ normalized_ids = <<>>
    /\ restored = <<>>
    /\ new_debt_list = <<>>
    /\ new_credit_list = <<>>
    /\ result = "none"
    /\ runs = 0
    /\ input_data = JOther
    /\ stream_call = <<>>
    /\ span_days = 0
    /\ roster_rows = <<>>
    /\ save_call = <<>>
    /\ files = <<>>
    /\ sanitized_instruction = <<>>
    /\ name_to_id = <<>>
    /\ instruction = <<>>
    /\ llm_call = NoCall
    /\ pc = "ready"

RunCarried == \E llm \in CarriedLlmResults, mode \in RunModes : Main(llm, mode, Today, <<>>)

NextCarried == RunCarried

SpecCarried == InitCarried /\ [][NextCarried]_vars

\* C37: the debt list and the credit list a successful run writes are
\* ascending without duplicates and hold only ids of the active roster of
\* that run: neither an inactive id the model reports nor an inactive id of
\* the lists the run read is written.
C37_LedgersSortedUniqueActive ==
    [][(runs' = runs + 1 /\ result' = "success") =>
           /\ Ascending(debt_list')
           /\ Ascending(credit_list')
           /\ Range(debt_list') \subseteq Range(active_ids')
           /\ Range(credit_list') \subseteq Range(active_ids')]_vars

\* the first run reads ledgers that hold the inactive id 3, the model
\* reports the debts 3 and "2" and the credits 2 and 1 and schedules id 1:
\* the run writes debt list [2] and credit list [1, 2]
C37_Witness ==
    /\ pc = "ran"
    /\ runs = 1
    /\ result = "success"
    /\ llm_result.new_debt_ids = JList(<<RawInt(3), RawStr(2)>>)
    /\ llm_result.new_credit_ids = JList(<<RawInt(2), RawInt(1)>>)
    /\ AllScheduled(normalized_ids) = {1}
    /\ debt_list = <<2>>
    /\ credit_list = <<1, 2>>

====
